---- MODULE Spec2Model ----
(***************************************************************************)
(* A model of backend/ai_agent/agent.py: the TaskAIAgent of the task       *)
(* manager.  Two parts:                                                    *)
(*   - backend selection at construction (__init__, _initialize_llm,       *)
(*     _initialize_fallback_llm), specification SpecSelect;                *)
(*   - the operations of a constructed agent (classify_task,               *)
(*     suggest_subtasks, analyze_task, analyze_task_stream), specification *)
(*     Spec.                                                               *)
(* Strings built by the code with f-strings are modelled as the sequence   *)
(* of their pieces: f"Classification unavailable: {e}" is the pair         *)
(* <<"Classification unavailable: ", e>>.                                  *)
(***************************************************************************)
EXTENDS Integers, Sequences, FiniteSets, TLC

VARIABLES
    \* ---- the environment of one construction -------------------------
    env,            \* what the world answers during backend selection
    \* ---- TaskAIAgent construction -------------------------------------
    ctorPc,         \* position inside __init__ / _initialize_llm
    use_fallback,   \* self.use_fallback
    llm,            \* self.llm: the bound backend, NoBackend before binding
    ctorError,      \* the exception that left the constructor, NoError if none
    probeCalls,     \* number of llm.invoke("test") calls made
    consulted,      \* fallback providers consulted, in order
    \* ---- the bound backend's behaviour --------------------------------
    backend,        \* per request kind, what the backend answers
    aCalls,         \* backend calls issued by the analyze_task call, in order
    sCalls,         \* backend calls issued by the stream, in order
    \* ---- classify_task / suggest_subtasks called directly -------------
    classifyOut,    \* outcome of the last direct classify_task call
    suggestOut,     \* outcome of the last direct suggest_subtasks call
    \* ---- analyze_task --------------------------------------------------
    aPc,            \* position inside one analyze_task call
    aClassification,\* its local variable classification
    aOut,           \* its outcome
    \* ---- analyze_task_stream -------------------------------------------
    sPc,            \* position of the generator
    sClassification,\* its local variable classification
    sSubtasks,      \* its local variable subtasks
    events,         \* the events the consumer has received, in order
    pulls,          \* number of next() calls the consumer made on the stream
    \* ---- backend calls that were issued and have not come back ---------
    aInFlight,      \* those of the analyze_task call
    sInFlight,      \* those of the stream
    \* ---- a second analyze_task_stream generator of the same agent ------
    s2Pc,           \* position of the second generator
    s2Classification,\* its local variable classification
    s2Subtasks,     \* its local variable subtasks
    events2,        \* the events its consumer has received, in order
    s2Calls,        \* the backend calls it issued, in order
    \* ---- one request to an AI endpoint of TaskViewSet ------------------
    vKind,          \* the endpoint requested
    vPc,            \* position inside the view (or inside event_stream)
    vResult,        \* its local variable result
    vExc,           \* the exception its except handler caught
    vIdx,           \* idx of the subtask creation loop
    vGen,           \* the analyze_task_stream generator event_stream iterates
    vEvent,         \* the loop variable event of event_stream
    vInvocations,   \* classify_task / suggest_subtasks calls made so far
    vResponse,      \* the Response returned (or the exception that left)
    frames,         \* the strings event_stream has yielded, in order
    vPulls,         \* number of next() calls made on event_stream()
    \* ---- the database --------------------------------------------------
    taskRow,        \* category, priority, ai_classified of the task
    subtaskRows,    \* the Subtask rows of the task
    nextId,         \* the next primary key of a Subtask row
    analyses,       \* the AIAnalysis rows of the task, in creation order
    dbBefore,       \* the task, its subtasks and its analyses before any request
    \* ---- requests to SubtaskViewSet ------------------------------------
    toggled,        \* the primary keys toggle was applied to, in order
    \* ---- an ai_suggest_subtasks request served by another worker -------
    oPc,            \* its position
    oIdx,           \* idx of its subtask creation loop
    \* ---- requests to the three viewsets, with their credentials --------
    apiTasks,       \* the rows of Task, of every user
    apiSubtasks,    \* the rows of Subtask
    apiAnalyses,    \* the rows of AIAnalysis
    apiNextId,      \* the primary key the next created subtask gets
    apiRequest,     \* the last request served
    apiResponse,    \* its response
    apiBefore,      \* the rows as they were before it
    apiCalls        \* how many requests were served

selVars == <<env, ctorPc, use_fallback, llm, ctorError, probeCalls, consulted>>
flightVars == <<pulls, aInFlight, sInFlight>>
g2Vars == <<s2Pc, s2Classification, s2Subtasks, events2, s2Calls>>
reqVars == <<vKind, vResult, vExc, vIdx, vGen, vEvent, vInvocations>>
outVars == <<vResponse, frames>>
dbVars == <<taskRow, subtaskRows, nextId, analyses>>
beforeVars == <<dbBefore>>
viewVars == <<vPc, reqVars, outVars, dbVars, vPulls, beforeVars>>
crudVars == <<toggled>>
otherVars == <<oPc, oIdx>>
apiVars == <<apiTasks, apiSubtasks, apiAnalyses, apiNextId, apiRequest,
             apiResponse, apiBefore, apiCalls>>
extVars == <<g2Vars, viewVars, crudVars, otherVars, apiVars>>
opVars  == <<backend, aCalls, sCalls, classifyOut, suggestOut, aPc,
             aClassification, aOut, sPc, sClassification, sSubtasks, events,
             flightVars, extVars>>
vars    == <<env, ctorPc, use_fallback, llm, ctorError, probeCalls, consulted,
             backend, aCalls, sCalls, classifyOut, suggestOut, aPc,
             aClassification, aOut, sPc, sClassification, sSubtasks, events,
             pulls, aInFlight, sInFlight,
             s2Pc, s2Classification, s2Subtasks, events2, s2Calls,
             vKind, vPc, vResult, vExc, vIdx, vGen, vEvent, vInvocations,
             vResponse, frames, taskRow, subtaskRows, nextId, analyses,
             toggled, vPulls, dbBefore, oPc, oIdx, apiTasks, apiSubtasks,
             apiAnalyses, apiNextId, apiRequest, apiResponse, apiBefore,
             apiCalls>>

(***************************************************************************)
(* Backend selection                                                       *)
(***************************************************************************)

NoBackend == "none"
NoError   == "none"
Providers == {"anthropic", "openai"}
Backends  == {"ollama"} \cup Providers

\* os.getenv of an API key: unset (None), set to the empty string, or set.
KeyUnset  == "<unset>"
KeyValues == {KeyUnset, "", "sk-key"}

\* Outcome of a step that may raise: it succeeds, raises ImportError, or
\* raises some other Exception (a pydantic ValidationError of a client
\* constructor, an error while a client package is imported, ...).
InitOutcomes == {"ok", "ImportError", "OtherError"}

\* Everything the world decides during one construction.
Environments ==
    [ ollama_init   : {"ok", "OtherError"},   \* Ollama(...) constructor
      ollama_probe  : {"ok", "OtherError"},   \* llm.invoke("test")
      anthropic_key : KeyValues,              \* ANTHROPIC_API_KEY
      anthropic_init: InitOutcomes,           \* import + ChatAnthropic(...)
      openai_key    : KeyValues,              \* OPENAI_API_KEY
      openai_init   : InitOutcomes ]          \* import + ChatOpenAI(...)

\* Python truthiness of os.getenv's result: `if anthropic_key:`.
Truthy(key) == key # KeyUnset /\ key # ""

\* The exception both raise statements of the selection raise.
RuntimeError == "RuntimeError"

SelectInit ==
    /\ env \in Environments
    /\ ctorPc = "new"
    /\ use_fallback = TRUE
    /\ llm = NoBackend
    /\ ctorError = NoError
    /\ probeCalls = 0
    /\ consulted = <<>>

\* __init__: stores use_fallback and enters _initialize_llm.
Construct ==
    /\ ctorPc = "new"
    /\ \E uf \in BOOLEAN : use_fallback' = uf
    /\ ctorPc' = "init_ollama"
    /\ UNCHANGED <<env, llm, ctorError, probeCalls, consulted>>
    /\ UNCHANGED opVars

\* _initialize_llm, the Ollama(...) constructor inside the try block.
InitOllama ==
    /\ ctorPc = "init_ollama"
    /\ ctorPc' = IF env.ollama_init = "ok" THEN "probe" ELSE "except"
    /\ UNCHANGED <<env, use_fallback, llm, ctorError, probeCalls, consulted>>
    /\ UNCHANGED opVars

\* A probe that is tried a second time when it fails.
ProbeOllama_Retry ==
    /\ ctorPc = "probe"
    /\ probeCalls' = probeCalls + 1
    /\ IF env.ollama_probe = "ok"
         THEN /\ llm' = "ollama"
              /\ ctorPc' = "constructed"
         ELSE /\ llm' = llm
              /\ ctorPc' = IF probeCalls = 0 THEN "probe" ELSE "except"
    /\ UNCHANGED <<env, use_fallback, ctorError, consulted>>
    /\ UNCHANGED opVars

\* _initialize_llm, llm.invoke("test"): the liveness probe; on success the
\* Ollama backend is returned and bound by __init__.
ProbeOllama ==
    /\ ctorPc = "probe"
    /\ probeCalls' = probeCalls + 1
    /\ IF env.ollama_probe = "ok"
         THEN /\ llm' = "ollama"
              /\ ctorPc' = "constructed"
         ELSE /\ llm' = llm
              /\ ctorPc' = "except"
    /\ UNCHANGED <<env, use_fallback, ctorError, consulted>>
    /\ UNCHANGED opVars

\* A handler that falls back whatever use_fallback says.
FallbackAllowed_Always(uf) == TRUE

\* Which branch the except handler of _initialize_llm takes.
FallbackAllowed(uf) == uf

\* A fallback chain that starts with the second provider.
FallbackEntry_OpenAIFirst == "fallback_openai"

\* _initialize_fallback_llm starts with "Try Anthropic Claude".
FallbackEntry == "fallback_anthropic"

\* _initialize_llm, the except handler: fall back or raise RuntimeError.
HandlePrimaryFailure ==
    /\ ctorPc = "except"
    /\ IF FallbackAllowed(use_fallback)
         THEN /\ ctorPc' = FallbackEntry
              /\ ctorError' = ctorError
         ELSE /\ ctorPc' = "failed"
              /\ ctorError' = RuntimeError
    /\ UNCHANGED <<env, use_fallback, llm, probeCalls, consulted>>
    /\ UNCHANGED opVars

\* One provider attempt of _initialize_fallback_llm: the position reached and
\* the exception raised, given the provider's key and what its import and
\* client constructor do.  Only ImportError is caught.
ProviderAttempt(provider, key, outcome, next) ==
    IF ~Truthy(key)
    THEN [pc |-> next, llm |-> NoBackend, error |-> NoError]
    ELSE CASE outcome = "ok" ->
                [pc |-> "constructed", llm |-> provider, error |-> NoError]
           [] outcome = "ImportError" ->
                [pc |-> next, llm |-> NoBackend, error |-> NoError]
           [] OTHER ->
                [pc |-> "failed", llm |-> NoBackend, error |-> outcome]

\* _initialize_fallback_llm, "Try Anthropic Claude".
TryAnthropic ==
    /\ ctorPc = "fallback_anthropic"
    /\ consulted' = Append(consulted, "anthropic")
    /\ LET r == ProviderAttempt("anthropic", env.anthropic_key,
                                env.anthropic_init, "fallback_openai")
       IN /\ ctorPc' = r.pc
          /\ llm' = r.llm
          /\ ctorError' = r.error
    /\ UNCHANGED <<env, use_fallback, probeCalls>>
    /\ UNCHANGED opVars

\* _initialize_fallback_llm, "Try OpenAI GPT".
TryOpenAI ==
    /\ ctorPc = "fallback_openai"
    /\ consulted' = Append(consulted, "openai")
    /\ LET r == ProviderAttempt("openai", env.openai_key,
                                env.openai_init, "no_llm")
       IN /\ ctorPc' = r.pc
          /\ llm' = r.llm
          /\ ctorError' = r.error
    /\ UNCHANGED <<env, use_fallback, probeCalls>>
    /\ UNCHANGED opVars

\* _initialize_fallback_llm, the final raise RuntimeError("No LLM available").
RaiseNoLLM ==
    /\ ctorPc = "no_llm"
    /\ ctorPc' = "failed"
    /\ ctorError' = RuntimeError
    /\ UNCHANGED <<env, use_fallback, llm, probeCalls, consulted>>
    /\ UNCHANGED opVars

SelectNext ==
    \/ Construct
    \/ InitOllama
    \/ ProbeOllama
    \/ HandlePrimaryFailure
    \/ TryAnthropic
    \/ TryOpenAI
    \/ RaiseNoLLM

(***************************************************************************)
(* The backend and the output schema                                       *)
(***************************************************************************)

\* Largest number of subtasks a backend response holds.
MaxSubtasks == 2

Missing == "<missing>"

\* The JSON objects a backend may answer a classification request with.
\* `absent` holds the keys the object lacks.
ClsObject(category, priority, absent) ==
    [kind |-> "json", exc |-> NoError, absent |-> absent,
     category |-> category, priority |-> priority, reasoning |-> <<"because">>]

\* What the backend may do on a classification request: raise, answer text
\* that is no JSON, or answer a JSON object.
ClsResponses ==
    { [kind |-> "raise", exc |-> "ConnectionError", absent |-> {},
       category |-> Missing, priority |-> 0, reasoning |-> <<>>],
      [kind |-> "garbage", exc |-> NoError, absent |-> {},
       category |-> Missing, priority |-> 0, reasoning |-> <<>>],
      ClsObject("work", 4, {}),
      ClsObject("personal", 1, {}),
      ClsObject("urgent", 5, {}),
      ClsObject("shopping", 2, {}),
      ClsObject("other", 5, {}),
      ClsObject("work", 0, {}),
      ClsObject("urgent", 6, {}),
      ClsObject("work", 0, {"priority"}),
      ClsObject(Missing, 2, {"category"}),
      ClsObject("work", 4, {"reasoning"}) }

RECURSIVE SeqsUpTo(_, _)
\* All sequences over S of length at most n.
SeqsUpTo(S, n) ==
    IF n = 0 THEN {<<>>}
    ELSE LET shorter == SeqsUpTo(S, n - 1)
         IN shorter \cup {Append(q, x) : q \in shorter, x \in S}

SubtaskItems ==
    { [title |-> "A", description |-> "do A", absent |-> {}],
      [title |-> "B", description |-> "do B", absent |-> {}] }

SubObject(subtasks, absent) ==
    [kind |-> "json", exc |-> NoError, absent |-> absent,
     subtasks |-> subtasks, reasoning |-> <<"split">>]

\* What the backend may do on a subtask request.
SubResponses ==
    { [kind |-> "raise", exc |-> "ConnectionError", absent |-> {},
       subtasks |-> <<>>, reasoning |-> <<>>],
      [kind |-> "garbage", exc |-> NoError, absent |-> {},
       subtasks |-> <<>>, reasoning |-> <<>>],
      SubObject(<<>>, {"subtasks"}),
      SubObject(<<[title |-> "A", description |-> "do A", absent |-> {}]>>,
                {"reasoning"}),
      SubObject(<<[title |-> Missing, description |-> "do A",
                   absent |-> {"title"}]>>, {}) }
    \cup { SubObject(q, {}) : q \in SeqsUpTo(SubtaskItems, MaxSubtasks) }

\* TaskClassification: category and reasoning are str, priority is an int
\* with ge=1, le=5; all three are required.
TaskClassificationValid(obj) ==
    /\ obj.absent \cap {"category", "reasoning", "priority"} = {}
    /\ obj.priority >= 1
    /\ obj.priority <= 5

\* SubtaskSuggestion: title and description are required.
SubtaskSuggestionValid(item) ==
    item.absent \cap {"title", "description"} = {}

\* SubtaskList: subtasks is required, reasoning has a default.
SubtaskListValid(obj) ==
    /\ "subtasks" \notin obj.absent
    /\ \A i \in 1..Len(obj.subtasks) : SubtaskSuggestionValid(obj.subtasks[i])

DefaultSubtaskReasoning == <<"Task broken down into actionable steps">>

\* Outcomes of a call: it returns a value or raises an exception.
Return(v) == [raised |-> FALSE, value |-> v]
Raise(e)  == [raised |-> TRUE, exc |-> e]

(***************************************************************************)
(* The structured request executor: classify_task and suggest_subtasks     *)
(***************************************************************************)

\* The task text handed to the agent.
TaskTitle       == "Plan company retreat"
TaskDescription == "Organize a 3-day team retreat"

\* self.llm answering a prompt: the backend's answer to a request of this
\* kind for this task, or the exception it raises.
generate(kind, title, description) ==
    IF backend[kind].kind = "raise"
    THEN Raise(backend[kind].exc)
    ELSE Return(backend[kind])

\* PydanticOutputParser(pydantic_object=TaskClassification): text that is no
\* JSON and JSON that fails validation both raise OutputParserException.
ParseClassification(text) ==
    IF text.kind = "json" /\ TaskClassificationValid(text)
    THEN Return([category  |-> text.category,
                 reasoning |-> text.reasoning,
                 priority  |-> text.priority])
    ELSE Raise("OutputParserException")

\* model_dump of one SubtaskSuggestion.
DumpSuggestion(item) ==
    [title |-> item.title, description |-> item.description]

\* PydanticOutputParser(pydantic_object=SubtaskList).
ParseSubtaskList(text) ==
    IF text.kind = "json" /\ SubtaskListValid(text)
    THEN Return([subtasks  |-> [i \in 1..Len(text.subtasks) |->
                                   DumpSuggestion(text.subtasks[i])],
                 reasoning |-> IF "reasoning" \in text.absent
                               THEN DefaultSubtaskReasoning
                               ELSE text.reasoning])
    ELSE Raise("OutputParserException")

\* chain = prompt | self.llm | parser; chain.invoke(...), for classification.
ClassificationChain(title, description) ==
    LET g == generate("classification", title, description)
    IN IF g.raised THEN g ELSE ParseClassification(g.value)

\* chain = prompt | self.llm | parser; chain.invoke(...), for subtasks.
SubtasksChain(title, description) ==
    LET g == generate("subtasks", title, description)
    IN IF g.raised THEN g ELSE ParseSubtaskList(g.value)

\* The safe default of classify_task's except handler.
ClassificationDefault(e) ==
    [category  |-> "other",
     reasoning |-> <<"Classification unavailable: ", e>>,
     priority  |-> 3]

\* The safe default of suggest_subtasks's except handler.
SubtasksDefault(e) ==
    [subtasks  |-> <<>>,
     reasoning |-> <<"Subtask generation unavailable: ", e>>]

\* A classify_task whose handler catches the backend's errors only, so a
\* parser exception leaves it.
classify_task_ParserUncaught(title, description) ==
    LET r == ClassificationChain(title, description)
    IN IF r.raised /\ r.exc # "OutputParserException"
       THEN Return(ClassificationDefault(r.exc))
       ELSE r

\* classify_task: the whole body is inside try / except Exception.
classify_task(title, description) ==
    LET r == ClassificationChain(title, description)
    IN IF r.raised
       THEN Return(ClassificationDefault(r.exc))
       ELSE Return(r.value)

\* A suggest_subtasks without the try / except.
suggest_subtasks_Uncaught(title, description) ==
    SubtasksChain(title, description)

\* suggest_subtasks: the whole body is inside try / except Exception.
suggest_subtasks(title, description) ==
    LET r == SubtasksChain(title, description)
    IN IF r.raised
       THEN Return(SubtasksDefault(r.exc))
       ELSE Return(r.value)

\* The values of locals and outcomes before they are assigned.
NoClassification == [category |-> "<unset>", reasoning |-> <<>>, priority |-> 0]
NoSubtasks       == [subtasks |-> <<>>, reasoning |-> <<"<unset>">>]
NoOutcome        == [raised |-> FALSE, pending |-> TRUE]

\* A classify_task that selects another backend when the bound one raises.
ClassifyTask_Refailover ==
    /\ ctorPc = "constructed"
    /\ classifyOut = NoOutcome
    /\ classifyOut' = classify_task(TaskTitle, TaskDescription)
    /\ llm' = IF backend.classification.kind = "raise" /\ llm # "openai"
              THEN "openai"
              ELSE llm
    /\ UNCHANGED extVars
    /\ UNCHANGED <<env, ctorPc, use_fallback, ctorError, probeCalls,
                   consulted, backend, aCalls, sCalls, suggestOut, aPc,
                   aClassification, aOut, sPc, sClassification, sSubtasks,
                   events, flightVars>>

\* A direct call of classify_task on the constructed agent.
ClassifyTask ==
    /\ ctorPc = "constructed"
    /\ classifyOut = NoOutcome
    /\ classifyOut' = classify_task(TaskTitle, TaskDescription)
    /\ UNCHANGED <<selVars, extVars>>
    /\ UNCHANGED <<backend, aCalls, sCalls, suggestOut, aPc,
                   aClassification, aOut, sPc, sClassification, sSubtasks,
                   events>>
    /\ UNCHANGED flightVars

\* A direct call of suggest_subtasks on the constructed agent.
SuggestSubtasks ==
    /\ ctorPc = "constructed"
    /\ suggestOut = NoOutcome
    /\ suggestOut' = suggest_subtasks(TaskTitle, TaskDescription)
    /\ UNCHANGED <<selVars, extVars>>
    /\ UNCHANGED <<backend, aCalls, sCalls, classifyOut, aPc,
                   aClassification, aOut, sPc, sClassification, sSubtasks,
                   events>>
    /\ UNCHANGED flightVars

(***************************************************************************)
(* analyze_task                                                            *)
(***************************************************************************)

\* An analyze_task that issues both requests at once.
AnalyzeCall_Parallel ==
    /\ ctorPc = "constructed"
    /\ aPc = "idle"
    /\ aPc' = "classify"
    /\ aCalls' = aCalls \o <<"classification", "subtasks">>
    /\ aInFlight' = aInFlight \cup {"classification", "subtasks"}
    /\ UNCHANGED <<selVars, extVars>>
    /\ UNCHANGED <<backend, sCalls, classifyOut, suggestOut,
                   aClassification, aOut, sPc, sClassification, sSubtasks,
                   events, pulls, sInFlight>>

\* analyze_task is entered; classify_task issues the first backend call.
AnalyzeCall ==
    /\ ctorPc = "constructed"
    /\ aPc = "idle"
    /\ aPc' = "classify"
    /\ aCalls' = Append(aCalls, "classification")
    /\ UNCHANGED <<selVars, extVars>>
    /\ UNCHANGED <<backend, sCalls, classifyOut, suggestOut,
                   aClassification, aOut, sPc, sClassification, sSubtasks,
                   events>>
    /\ aInFlight' = aInFlight \cup {"classification"}
    /\ UNCHANGED <<pulls, sInFlight>>

\* An analyze_task that skips subtask generation after a default
\* classification.
AfterClassify_SkipOnDefault(r) ==
    IF r.raised
    THEN [pc |-> "raised", classification |-> NoClassification,
          calls |-> <<>>, out |-> r]
    ELSE IF r.value.category = "other"
    THEN [pc |-> "done", classification |-> r.value, calls |-> <<>>,
          out |-> Return([classification |-> r.value,
                          subtasks |-> SubtasksDefault("skipped")])]
    ELSE [pc |-> "suggest", classification |-> r.value,
          calls |-> <<"subtasks">>, out |-> NoOutcome]

\* What analyze_task does once classify_task has come back with outcome r:
\* an exception leaves analyze_task, a value is kept and suggest_subtasks
\* is called.
AfterClassify(r) ==
    IF r.raised
    THEN [pc |-> "raised", classification |-> NoClassification,
          calls |-> <<>>, out |-> r]
    ELSE [pc |-> "suggest", classification |-> r.value,
          calls |-> <<"subtasks">>, out |-> NoOutcome]

\* classification = self.classify_task(title, description) completes, and
\* suggest_subtasks issues the second backend call.
AnalyzeClassified ==
    /\ aPc = "classify"
    /\ LET n == AfterClassify(classify_task(TaskTitle, TaskDescription))
       IN /\ aPc' = n.pc
          /\ aClassification' = n.classification
          /\ aCalls' = aCalls \o n.calls
          /\ aInFlight' = (aInFlight \ {"classification"})
                             \cup {n.calls[i] : i \in 1..Len(n.calls)}
          /\ aOut' = n.out
    /\ UNCHANGED <<selVars, extVars>>
    /\ UNCHANGED <<backend, sCalls, classifyOut, suggestOut, sPc,
                   sClassification, sSubtasks, events>>
    /\ UNCHANGED <<pulls, sInFlight>>

\* subtasks = self.suggest_subtasks(title, description) completes and
\* analyze_task returns the dict of both.
AnalyzeReturn ==
    /\ aPc = "suggest"
    /\ LET r == suggest_subtasks(TaskTitle, TaskDescription)
       IN IF r.raised
          THEN /\ aPc' = "raised"
               /\ aOut' = r
          ELSE /\ aPc' = "done"
               /\ aOut' = Return([classification |-> aClassification,
                                  subtasks |-> r.value])
    /\ UNCHANGED <<selVars, extVars>>
    /\ UNCHANGED <<backend, aCalls, sCalls, classifyOut, suggestOut,
                   aClassification, sPc, sClassification, sSubtasks, events>>
    /\ aInFlight' = aInFlight \ {"subtasks"}
    /\ UNCHANGED <<pulls, sInFlight>>

(***************************************************************************)
(* analyze_task_stream: a generator; every Pull action is one next() of    *)
(* the consumer, and the generator runs from one yield to the following.   *)
(***************************************************************************)

StartEvent ==
    [type |-> "start", message |-> <<"Starting AI analysis...">>,
     step |-> "initialization"]

ClassificationAnnounceEvent ==
    [type |-> "progress",
     message |-> <<"Analyzing task category and priority...">>,
     step |-> "classification"]

ClassificationResultEvent(classification) ==
    [type |-> "progress",
     message |-> <<"Classified as '", classification.category,
                   "' with priority ", ToString(classification.priority),
                   "/5">>,
     step |-> "classification",
     data |-> classification]

ClassificationErrorEvent(e) ==
    [type |-> "error", message |-> <<"Classification failed: ", e>>,
     step |-> "classification"]

\* The default the stream's own except handler substitutes.
StreamClassificationDefault ==
    [category |-> "other", reasoning |-> <<"Classification failed">>,
     priority |-> 3]

\* An announcement copied from the start event with its step left as it was.
SubtasksAnnounceEvent_StepNotEdited ==
    [type |-> "progress",
     message |-> <<"Breaking down task into subtasks...">>,
     step |-> "initialization"]

SubtasksAnnounceEvent ==
    [type |-> "progress",
     message |-> <<"Breaking down task into subtasks...">>,
     step |-> "subtasks"]

SubtasksResultEvent(subtasks) ==
    [type |-> "progress",
     message |-> <<"Generated ", ToString(Len(subtasks.subtasks)),
                   " actionable subtasks">>,
     step |-> "subtasks",
     data |-> subtasks]

SubtasksErrorEvent(e) ==
    [type |-> "error", message |-> <<"Subtask generation failed: ", e>>,
     step |-> "subtasks"]

StreamSubtasksDefault ==
    [subtasks |-> <<>>, reasoning |-> <<"Subtask generation failed">>]

CompleteEvent(result) ==
    [type |-> "complete", message |-> <<"Analysis complete!">>,
     step |-> "done", data |-> result]

\* analyze_task_stream(title, description) is called: the generator object
\* is created and none of its body has run.
StreamInvoke ==
    /\ ctorPc = "constructed"
    /\ sPc = "idle"
    /\ sPc' = "created"
    /\ UNCHANGED <<selVars, extVars>>
    /\ UNCHANGED <<backend, aCalls, sCalls, classifyOut, suggestOut,
                   aPc, aClassification, aOut, sClassification, sSubtasks,
                   events>>
    /\ UNCHANGED flightVars

\* First next(): runs to the yield of the start event.
PullStart ==
    /\ sPc = "created"
    /\ events' = Append(events, StartEvent)
    /\ sPc' = "yield_start"
    /\ UNCHANGED <<selVars, extVars>>
    /\ UNCHANGED <<backend, aCalls, sCalls, classifyOut, suggestOut,
                   aPc, aClassification, aOut, sClassification, sSubtasks>>
    /\ pulls' = pulls + 1
    /\ UNCHANGED <<aInFlight, sInFlight>>

\* A generator that starts the classification request before it yields the
\* announcement.
PullClassificationAnnounce_Eager ==
    /\ sPc = "yield_start"
    /\ sCalls' = Append(sCalls, "classification")
    /\ sInFlight' = sInFlight \cup {"classification"}
    /\ pulls' = pulls + 1
    /\ sPc' = "classify"
    /\ UNCHANGED <<selVars, extVars>>
    /\ UNCHANGED <<backend, aCalls, classifyOut, suggestOut, aPc,
                   aClassification, aOut, sClassification, sSubtasks, events,
                   aInFlight>>

\* next() at the start yield: runs to the yield announcing classification.
PullClassificationAnnounce ==
    /\ sPc = "yield_start"
    /\ events' = Append(events, ClassificationAnnounceEvent)
    /\ sPc' = "yield_classification_announce"
    /\ UNCHANGED <<selVars, extVars>>
    /\ UNCHANGED <<backend, aCalls, sCalls, classifyOut, suggestOut,
                   aPc, aClassification, aOut, sClassification, sSubtasks>>
    /\ pulls' = pulls + 1
    /\ UNCHANGED <<aInFlight, sInFlight>>

\* next() at the announcement: the try region is entered and classify_task
\* issues its backend call.
PullClassify ==
    /\ sPc = "yield_classification_announce"
    /\ sCalls' = Append(sCalls, "classification")
    /\ sPc' = "classify"
    /\ UNCHANGED <<selVars, extVars>>
    /\ UNCHANGED <<backend, aCalls, classifyOut, suggestOut, aPc,
                   aClassification, aOut, sClassification, sSubtasks, events>>
    /\ pulls' = pulls + 1
    /\ sInFlight' = sInFlight \cup {"classification"}
    /\ UNCHANGED aInFlight

\* classify_task comes back inside the try region: its value is assigned
\* and yielded, or the except handler yields the error event.
StreamClassified ==
    /\ sPc = "classify"
    /\ LET r == classify_task(TaskTitle, TaskDescription)
       IN IF r.raised
          THEN /\ events' = Append(events, ClassificationErrorEvent(r.exc))
               /\ sClassification' = sClassification
               /\ sPc' = "yield_classification_error"
          ELSE /\ events' = Append(events, ClassificationResultEvent(r.value))
               /\ sClassification' = r.value
               /\ sPc' = "yield_classification_result"
    /\ UNCHANGED <<selVars, extVars>>
    /\ UNCHANGED <<backend, aCalls, sCalls, classifyOut, suggestOut,
                   aPc, aClassification, aOut, sSubtasks>>
    /\ sInFlight' = sInFlight \ {"classification"}
    /\ UNCHANGED <<pulls, aInFlight>>

\* A generator that keeps the classification it held when its handler ran.
PullSubtasksAnnounce_KeepsResult ==
    /\ sPc \in {"yield_classification_result", "yield_classification_error"}
    /\ events' = Append(events, SubtasksAnnounceEvent)
    /\ sPc' = "yield_subtasks_announce"
    /\ pulls' = pulls + 1
    /\ UNCHANGED <<selVars, extVars>>
    /\ UNCHANGED <<backend, aCalls, sCalls, classifyOut, suggestOut,
                   aPc, aClassification, aOut, sClassification, sSubtasks,
                   aInFlight, sInFlight>>

\* next() at the end of the classification phase: after the error yield the
\* default is assigned; then the subtasks phase is announced.
PullSubtasksAnnounce ==
    /\ sPc \in {"yield_classification_result", "yield_classification_error"}
    /\ sClassification' = IF sPc = "yield_classification_error"
                          THEN StreamClassificationDefault
                          ELSE sClassification
    /\ events' = Append(events, SubtasksAnnounceEvent)
    /\ sPc' = "yield_subtasks_announce"
    /\ UNCHANGED <<selVars, extVars>>
    /\ UNCHANGED <<backend, aCalls, sCalls, classifyOut, suggestOut,
                   aPc, aClassification, aOut, sSubtasks>>
    /\ pulls' = pulls + 1
    /\ UNCHANGED <<aInFlight, sInFlight>>

\* next() at the announcement: suggest_subtasks issues its backend call.
PullSuggest ==
    /\ sPc = "yield_subtasks_announce"
    /\ sCalls' = Append(sCalls, "subtasks")
    /\ sPc' = "suggest"
    /\ UNCHANGED <<selVars, extVars>>
    /\ UNCHANGED <<backend, aCalls, classifyOut, suggestOut, aPc,
                   aClassification, aOut, sClassification, sSubtasks, events>>
    /\ pulls' = pulls + 1
    /\ sInFlight' = sInFlight \cup {"subtasks"}
    /\ UNCHANGED aInFlight

\* suggest_subtasks comes back inside the try region.
StreamSuggested ==
    /\ sPc = "suggest"
    /\ LET r == suggest_subtasks(TaskTitle, TaskDescription)
       IN IF r.raised
          THEN /\ events' = Append(events, SubtasksErrorEvent(r.exc))
               /\ sSubtasks' = sSubtasks
               /\ sPc' = "yield_subtasks_error"
          ELSE /\ events' = Append(events, SubtasksResultEvent(r.value))
               /\ sSubtasks' = r.value
               /\ sPc' = "yield_subtasks_result"
    /\ UNCHANGED <<selVars, extVars>>
    /\ UNCHANGED <<backend, aCalls, sCalls, classifyOut, suggestOut,
                   aPc, aClassification, aOut, sClassification>>
    /\ sInFlight' = sInFlight \ {"subtasks"}
    /\ UNCHANGED <<pulls, aInFlight>>

\* next() at the end of the subtasks phase: the result dict is built and the
\* complete event is yielded.
PullComplete ==
    /\ sPc \in {"yield_subtasks_result", "yield_subtasks_error"}
    /\ LET subtasks == IF sPc = "yield_subtasks_error"
                       THEN StreamSubtasksDefault
                       ELSE sSubtasks
       IN /\ sSubtasks' = subtasks
          /\ events' = Append(events,
                 CompleteEvent([classification |-> sClassification,
                                subtasks |-> subtasks]))
    /\ sPc' = "yield_complete"
    /\ UNCHANGED <<selVars, extVars>>
    /\ UNCHANGED <<backend, aCalls, sCalls, classifyOut, suggestOut,
                   aPc, aClassification, aOut, sClassification>>
    /\ pulls' = pulls + 1
    /\ UNCHANGED <<aInFlight, sInFlight>>

\* next() at the complete yield: the body ends, StopIteration.
PullEnd ==
    /\ sPc = "yield_complete"
    /\ sPc' = "exhausted"
    /\ UNCHANGED <<selVars, extVars>>
    /\ UNCHANGED <<backend, aCalls, sCalls, classifyOut, suggestOut,
                   aPc, aClassification, aOut, sClassification, sSubtasks,
                   events>>
    /\ pulls' = pulls + 1
    /\ UNCHANGED <<aInFlight, sInFlight>>

\* The positions at which the generator is suspended and waits for next().
Suspended ==
    {"created", "yield_start", "yield_classification_announce",
     "yield_classification_result", "yield_classification_error",
     "yield_subtasks_announce", "yield_subtasks_result",
     "yield_subtasks_error", "yield_complete"}

\* The consumer stops pulling: the suspended generator is dropped and closed;
\* GeneratorExit is no Exception, so no handler of the body runs.
StopPulling ==
    /\ sPc \in Suspended
    /\ sPc' = "closed"
    /\ UNCHANGED <<selVars, extVars>>
    /\ UNCHANGED <<backend, aCalls, sCalls, classifyOut, suggestOut,
                   aPc, aClassification, aOut, sClassification, sSubtasks,
                   events, flightVars>>

\* Largest number of next() calls the consumer makes on one stream.
MaxPulls == 8

\* next() on the exhausted generator: StopIteration again, nothing runs.
PullExhausted ==
    /\ sPc = "exhausted"
    /\ pulls < MaxPulls
    /\ pulls' = pulls + 1
    /\ UNCHANGED <<selVars, extVars>>
    /\ UNCHANGED <<backend, aCalls, sCalls, classifyOut, suggestOut,
                   aPc, aClassification, aOut, sPc, sClassification,
                   sSubtasks, events, aInFlight, sInFlight>>

\* The texts of the exceptions a consumer throws into the generator.
ThrownTexts == {<<"cancelled">>}

\* The yields that stand inside a try region of the generator body.
YieldsInTry == {"yield_classification_result", "yield_subtasks_result"}

\* generator.throw(Exception(e)) by the consumer: the exception is raised at
\* the yield the generator is suspended at.  Inside a try region the except
\* handler catches it and yields the error event of that phase; at any other
\* yield nothing catches it and the generator ends with the exception.
ConsumerThrow ==
    /\ sPc \in Suspended
    /\ \E e \in ThrownTexts :
          CASE sPc = "yield_classification_result" ->
                  /\ events' = Append(events, ClassificationErrorEvent(e))
                  /\ sPc' = "yield_classification_error"
            [] sPc = "yield_subtasks_result" ->
                  /\ events' = Append(events, SubtasksErrorEvent(e))
                  /\ sPc' = "yield_subtasks_error"
            [] OTHER ->
                  /\ events' = events
                  /\ sPc' = "raised"
    /\ UNCHANGED <<selVars, extVars>>
    /\ UNCHANGED <<backend, aCalls, sCalls, classifyOut, suggestOut,
                   aPc, aClassification, aOut, sClassification, sSubtasks,
                   flightVars>>

\* The frame of a step of the second generator: the agent, the direct calls,
\* the analyze_task call and the first generator are left as they are.
FirstStreamVars ==
    <<sPc, sClassification, sSubtasks, events, sCalls, pulls, sInFlight>>

\* A second invocation that takes its position and its locals from the
\* generator created before it.
Stream2Invoke_ResumesFirst ==
    /\ ctorPc = "constructed"
    /\ s2Pc = "idle"
    /\ s2Pc' = IF sPc \in Suspended THEN sPc ELSE "created"
    /\ s2Classification' = sClassification
    /\ s2Subtasks' = sSubtasks
    /\ UNCHANGED <<events2, s2Calls>>
    /\ UNCHANGED <<selVars, backend, aCalls, classifyOut, suggestOut, aPc,
                   aClassification, aOut, aInFlight, FirstStreamVars>>
    /\ UNCHANGED <<viewVars, crudVars, otherVars, apiVars>>

\* analyze_task_stream is called again on the same agent: a new generator
\* object with its own frame, none of its body has run.
Stream2Invoke ==
    /\ ctorPc = "constructed"
    /\ s2Pc = "idle"
    /\ s2Pc' = "created"
    /\ UNCHANGED <<s2Classification, s2Subtasks, events2, s2Calls>>
    /\ UNCHANGED <<selVars, backend, aCalls, classifyOut, suggestOut, aPc,
                   aClassification, aOut, aInFlight, FirstStreamVars>>
    /\ UNCHANGED <<viewVars, crudVars, otherVars, apiVars>>

\* One resumption of an analyze_task_stream generator g (its position and
\* its locals): the body runs from the yield it is suspended at to its
\* following yield; a classify_task or suggest_subtasks call on the way is
\* made and comes back within the resumption.  `out` holds the event
\* yielded, or nothing when the body ended; `calls` the requests issued.
Resume(g) ==
    LET Gen(pc, c, t, out, calls) ==
            [pc |-> pc, classification |-> c, subtasks |-> t, out |-> out,
             calls |-> calls]
        c0 == g.classification
        t0 == g.subtasks
    IN CASE g.pc = "created" ->
              Gen("yield_start", c0, t0, <<StartEvent>>, <<>>)
         [] g.pc = "yield_start" ->
              Gen("yield_classification_announce", c0, t0,
                  <<ClassificationAnnounceEvent>>, <<>>)
         [] g.pc = "yield_classification_announce" ->
              LET r == classify_task(TaskTitle, TaskDescription)
              IN IF r.raised
                 THEN Gen("yield_classification_error", c0, t0,
                          <<ClassificationErrorEvent(r.exc)>>,
                          <<"classification">>)
                 ELSE Gen("yield_classification_result", r.value, t0,
                          <<ClassificationResultEvent(r.value)>>,
                          <<"classification">>)
         [] g.pc \in {"yield_classification_result",
                      "yield_classification_error"} ->
              Gen("yield_subtasks_announce",
                  IF g.pc = "yield_classification_error"
                  THEN StreamClassificationDefault ELSE c0,
                  t0, <<SubtasksAnnounceEvent>>, <<>>)
         [] g.pc = "yield_subtasks_announce" ->
              LET r == suggest_subtasks(TaskTitle, TaskDescription)
              IN IF r.raised
                 THEN Gen("yield_subtasks_error", c0, t0,
                          <<SubtasksErrorEvent(r.exc)>>, <<"subtasks">>)
                 ELSE Gen("yield_subtasks_result", c0, r.value,
                          <<SubtasksResultEvent(r.value)>>, <<"subtasks">>)
         [] g.pc \in {"yield_subtasks_result", "yield_subtasks_error"} ->
              LET t == IF g.pc = "yield_subtasks_error"
                       THEN StreamSubtasksDefault ELSE t0
              IN Gen("yield_complete", c0, t,
                     <<CompleteEvent([classification |-> c0,
                                      subtasks |-> t])>>, <<>>)
         [] OTHER ->
              Gen("exhausted", c0, t0, <<>>, <<>>)

\* One next() on the second generator.
Stream2Pull ==
    /\ s2Pc \in Suspended
    /\ LET n == Resume([pc |-> s2Pc, classification |-> s2Classification,
                        subtasks |-> s2Subtasks])
       IN /\ s2Pc' = n.pc
          /\ s2Classification' = n.classification
          /\ s2Subtasks' = n.subtasks
          /\ events2' = events2 \o n.out
          /\ s2Calls' = s2Calls \o n.calls
    /\ UNCHANGED <<selVars, backend, aCalls, classifyOut, suggestOut, aPc,
                   aClassification, aOut, aInFlight, FirstStreamVars>>
    /\ UNCHANGED <<viewVars, crudVars, otherVars, apiVars>>

(***************************************************************************)
(* The AI endpoints of TaskViewSet.  Every request constructs its own      *)
(* TaskAIAgent; the outcome of that construction is the one the selection  *)
(* reaches in this environment.  A statement that writes to the database   *)
(* either takes effect or raises DatabaseError.                            *)
(***************************************************************************)

SyncEndpoints == {"ai_classify", "ai_suggest_subtasks", "ai_analyze"}
StreamEndpoint == "ai_analyze_stream"
Endpoints == SyncEndpoints \cup {StreamEndpoint}

\* Everything of the agent's operations a view leaves alone.
agentOpVars ==
    <<backend, aCalls, sCalls, classifyOut, suggestOut, aPc, aClassification,
      aOut, sPc, sClassification, sSubtasks, events, flightVars, g2Vars>>

\* str(x) and json.dumps(x): a text that determines x and is not x.
Repr(x) == [encoding |-> "repr", of |-> x]
JsonDumps(x) == [encoding |-> "json", of |-> x]

\* An event line that names no type.
EventLine_Untyped(event_type) == <<"event: ", "message", "\n">>

\* f"event: {event_type}\n" and f"data: {json.dumps(event)}\n\n".
EventLine(event_type) == <<"event: ", event_type, "\n">>
DataLine(text) == <<"data: ", text, "\n\n">>

\* d.get(k, default)
Get(d, k, default) == IF k \in DOMAIN d THEN d[k] ELSE default
EmptyDict == <<>>

NoResult == [pending |-> TRUE]
NoEvent == [type |-> "<none>"]
NoGenerator ==
    [pc |-> "idle", classification |-> NoClassification,
     subtasks |-> NoSubtasks]
NoResponse == [status |-> 0]
DatabaseError == "DatabaseError"

\* analyze_task as one call: classify_task, then suggest_subtasks.
analyze_task(title, description) ==
    LET n == AfterClassify(classify_task(title, description))
        r == suggest_subtasks(title, description)
    IN IF n.pc = "raised"
       THEN [out |-> n.out, invocations |-> <<"classify_task">>]
       ELSE [out |-> IF r.raised
                     THEN r
                     ELSE Return([classification |-> n.classification,
                                  subtasks |-> r.value]),
             invocations |-> <<"classify_task", "suggest_subtasks">>]

\* The call each synchronous endpoint makes on its agent.
ExecutorCall(kind) ==
    CASE kind = "ai_classify" ->
            [out |-> classify_task(TaskTitle, TaskDescription),
             invocations |-> <<"classify_task">>]
      [] kind = "ai_suggest_subtasks" ->
            [out |-> suggest_subtasks(TaskTitle, TaskDescription),
             invocations |-> <<"suggest_subtasks">>]
      [] OTHER -> analyze_task(TaskTitle, TaskDescription)

\* The executor call behind a request the generator issued.
Invocation(request) ==
    IF request = "classification" THEN "classify_task" ELSE "suggest_subtasks"

\* classification and subtasks_data as each endpoint reads them from result.
ClassificationOf(kind, result) ==
    IF kind = "ai_classify"
    THEN result
    ELSE Get(result, "classification", EmptyDict)

SubtasksDataOf(kind, result) ==
    IF kind = "ai_suggest_subtasks"
    THEN Get(result, "subtasks", <<>>)
    ELSE Get(Get(result, "subtasks", EmptyDict), "subtasks", <<>>)

AnalysisType(kind) ==
    CASE kind = "ai_classify" -> "classification"
      [] kind = "ai_suggest_subtasks" -> "subtask_generation"
      [] OTHER -> "full_analysis"

FailureLabel(kind) ==
    CASE kind = "ai_classify" -> "Classification failed: "
      [] kind = "ai_suggest_subtasks" -> "Subtask generation failed: "
      [] OTHER -> "AI analysis failed: "

\* A subtask row whose order counts from one.
NewSubtask_OrderFromOne(id, subtask_data, idx) ==
    [id |-> id,
     title |-> Get(subtask_data, "title", ""),
     description |-> Get(subtask_data, "description", ""),
     order |-> idx + 1, ai_generated |-> TRUE, completed |-> FALSE]

\* Subtask.objects.create(task=task, title=..., description=..., order=idx,
\* ai_generated=True)
NewSubtask(id, subtask_data, idx) ==
    [id |-> id,
     title |-> Get(subtask_data, "title", ""),
     description |-> Get(subtask_data, "description", ""),
     order |-> idx, ai_generated |-> TRUE, completed |-> FALSE]

\* A log entry that counts a safe default as a failure.
SuccessAnalysis_FlagsDefault(kind, result) ==
    [analysis_type |-> AnalysisType(kind),
     response |-> IF kind = StreamEndpoint
                  THEN JsonDumps(result) ELSE Repr(result),
     success |-> Get(ClassificationOf(kind, result), "category", "") # "other",
     error_message |-> NoError]

\* AIAnalysis.objects.create(..., success=True) of a request.
SuccessAnalysis(kind, result) ==
    [analysis_type |-> AnalysisType(kind),
     response |-> IF kind = StreamEndpoint
                  THEN JsonDumps(result) ELSE Repr(result),
     success |-> TRUE, error_message |-> NoError]

\* AIAnalysis.objects.create(..., success=False, error_message=str(e)).
FailedAnalysis(kind, e) ==
    [analysis_type |-> AnalysisType(kind), response |-> <<>>,
     success |-> FALSE, error_message |-> e]

\* The body of the 200 answer of a synchronous endpoint.
SuccessBody(kind, result, task) ==
    CASE kind = "ai_classify" ->
            [classification |-> result, task |-> task]
      [] kind = "ai_suggest_subtasks" ->
            [subtasks |-> result, task |-> task]
      [] OTHER ->
            [classification |-> Get(result, "classification", EmptyDict),
             subtasks |-> Get(result, "subtasks", EmptyDict), task |-> task]

\* An exception e raised inside the try block of the view: the synchronous
\* endpoints go to their handler; event_stream's handler yields its first
\* line within the same resumption.
ViewRaise(e) ==
    /\ vExc' = e
    /\ IF vKind = StreamEndpoint
       THEN /\ frames' = Append(frames, EventLine("error"))
            /\ vPc' = "yield_error_line"
       ELSE /\ frames' = frames
            /\ vPc' = "except"

\* The for statement of event_stream asks generator g for its next event:
\* the event's first line is yielded, or the loop and the body end.
ViewAdvance(g) ==
    LET n == Resume(g)
    IN /\ vGen' = [pc |-> n.pc, classification |-> n.classification,
                   subtasks |-> n.subtasks]
       /\ vInvocations' =
             vInvocations \o [i \in 1..Len(n.calls) |-> Invocation(n.calls[i])]
       /\ IF n.out = <<>>
          THEN /\ vPc' = "exhausted"
               /\ UNCHANGED <<vEvent, frames>>
          ELSE /\ vEvent' = n.out[1]
               /\ frames' = Append(frames,
                                   EventLine(Get(n.out[1], "type", "message")))
               /\ vPc' = "yield_event_line"

\* A request arrives; task = self.get_object().  ai_analyze_stream returns
\* its StreamingHttpResponse at once, none of event_stream has run.
ViewRequest ==
    /\ vPc = "idle"
    /\ \E kind \in Endpoints :
          /\ vKind' = kind
          /\ vPc' = IF kind = StreamEndpoint THEN "created" ELSE "try"
          /\ vResponse' = IF kind = StreamEndpoint
                         THEN [status |-> 200, body |-> "event_stream"]
                         ELSE vResponse
    /\ UNCHANGED <<vResult, vExc, vIdx, vGen, vEvent, vInvocations, frames,
                   dbVars>>
    /\ UNCHANGED <<selVars, agentOpVars, crudVars, beforeVars,
                   otherVars, apiVars>>
    /\ UNCHANGED vPulls

\* A synchronous endpoint constructs its agent and calls it.
ViewCallAgent ==
    /\ vKind \in SyncEndpoints
    /\ vPc = "try"
    /\ IF ctorPc # "constructed"
       THEN /\ ViewRaise(ctorError)
            /\ UNCHANGED <<vResult, vInvocations>>
       ELSE LET call == ExecutorCall(vKind)
            IN /\ vInvocations' = vInvocations \o call.invocations
               /\ IF call.out.raised
                  THEN /\ ViewRaise(call.out.exc)
                       /\ UNCHANGED vResult
                  ELSE /\ vResult' = call.out.value
                       /\ vPc' = IF vKind = "ai_suggest_subtasks"
                                 THEN "delete" ELSE "save_task"
                       /\ UNCHANGED <<vExc, frames>>
    /\ UNCHANGED <<vKind, vIdx, vGen, vEvent, vResponse, dbVars>>
    /\ UNCHANGED <<selVars, agentOpVars, crudVars, beforeVars,
                   otherVars, apiVars>>
    /\ UNCHANGED vPulls

\* task.category, task.priority, task.ai_classified are set; task.save().
ViewSaveTask ==
    /\ vPc = "save_task"
    /\ \/ LET classification == ClassificationOf(vKind, vResult)
          IN /\ taskRow' =
                   [category |-> Get(classification, "category", "other"),
                    priority |-> Get(classification, "priority", 3),
                    ai_classified |-> TRUE]
             /\ vPc' = IF vKind = "ai_classify" THEN "log" ELSE "delete"
             /\ UNCHANGED <<vExc, frames>>
       \/ /\ ViewRaise(DatabaseError)
          /\ UNCHANGED taskRow
    /\ UNCHANGED <<vKind, vResult, vIdx, vGen, vEvent, vInvocations,
                   vResponse, subtaskRows, nextId, analyses>>
    /\ UNCHANGED <<selVars, agentOpVars, crudVars, beforeVars,
                   otherVars, apiVars>>
    /\ UNCHANGED vPulls

\* Subtask.objects.filter(task=task, ai_generated=True).delete()
ViewDeleteGenerated ==
    /\ vPc = "delete"
    /\ \/ /\ subtaskRows' = {row \in subtaskRows : ~row.ai_generated}
          /\ vIdx' = 0
          /\ vPc' = "create"
          /\ UNCHANGED <<vExc, frames>>
       \/ /\ ViewRaise(DatabaseError)
          /\ UNCHANGED <<subtaskRows, vIdx>>
    /\ UNCHANGED <<vKind, vResult, vGen, vEvent, vInvocations, vResponse,
                   taskRow, nextId, analyses>>
    /\ UNCHANGED <<selVars, agentOpVars, crudVars, beforeVars,
                   otherVars, apiVars>>
    /\ UNCHANGED vPulls

\* One pass of `for idx, subtask_data in enumerate(subtasks_data)`.
ViewCreateSubtask ==
    /\ vPc = "create"
    /\ vIdx < Len(SubtasksDataOf(vKind, vResult))
    /\ \/ /\ subtaskRows' = subtaskRows \cup
                {NewSubtask(nextId,
                            SubtasksDataOf(vKind, vResult)[vIdx + 1], vIdx)}
          /\ nextId' = nextId + 1
          /\ vIdx' = vIdx + 1
          /\ UNCHANGED <<vPc, vExc, frames>>
       \/ /\ ViewRaise(DatabaseError)
          /\ UNCHANGED <<subtaskRows, nextId, vIdx>>
    /\ UNCHANGED <<vKind, vResult, vGen, vEvent, vInvocations, vResponse,
                   taskRow, analyses>>
    /\ UNCHANGED <<selVars, agentOpVars, crudVars, beforeVars,
                   otherVars, apiVars>>
    /\ UNCHANGED vPulls

\* A view that writes one AIAnalysis row for every executor call it made.
ViewLogSuccess_PerInvocation ==
    /\ \/ vPc = "log"
       \/ vPc = "create" /\ vIdx = Len(SubtasksDataOf(vKind, vResult))
    /\ analyses' = analyses \o
           [i \in 1..Len(vInvocations) |-> SuccessAnalysis(vKind, vResult)]
    /\ IF vKind = StreamEndpoint
       THEN /\ ViewAdvance(vGen)
            /\ UNCHANGED vResponse
       ELSE /\ vResponse' = [status |-> 200,
                            body |-> SuccessBody(vKind, vResult, taskRow)]
            /\ vPc' = "done"
            /\ UNCHANGED <<vGen, vEvent, vInvocations, frames>>
    /\ UNCHANGED <<vKind, vResult, vExc, vIdx, taskRow, subtaskRows, nextId>>
    /\ UNCHANGED <<selVars, agentOpVars, crudVars, beforeVars,
                   otherVars, apiVars>>
    /\ UNCHANGED vPulls

\* The loop is over (or there was none): the AIAnalysis row with
\* success=True is created; a synchronous endpoint returns its Response,
\* event_stream goes on to ask the generator for the next event.
ViewLogSuccess ==
    /\ \/ vPc = "log"
       \/ vPc = "create" /\ vIdx = Len(SubtasksDataOf(vKind, vResult))
    /\ \/ /\ analyses' = Append(analyses, SuccessAnalysis(vKind, vResult))
          /\ UNCHANGED vExc
          /\ IF vKind = StreamEndpoint
             THEN /\ ViewAdvance(vGen)
                  /\ UNCHANGED vResponse
             ELSE /\ vResponse' =
                        [status |-> 200,
                         body |-> SuccessBody(vKind, vResult, taskRow)]
                  /\ vPc' = "done"
                  /\ UNCHANGED <<vGen, vEvent, vInvocations, frames>>
       \/ /\ ViewRaise(DatabaseError)
          /\ UNCHANGED <<analyses, vResponse, vGen, vEvent, vInvocations>>
    /\ UNCHANGED <<vKind, vResult, vIdx, taskRow, subtaskRows, nextId>>
    /\ UNCHANGED <<selVars, agentOpVars, crudVars, beforeVars,
                   otherVars, apiVars>>
    /\ UNCHANGED vPulls

\* The except handler of a synchronous endpoint: it creates the AIAnalysis
\* row with success=False and answers 500; an exception raised by that
\* create leaves the view.
ViewExcept ==
    /\ vKind \in SyncEndpoints
    /\ vPc = "except"
    /\ \/ /\ analyses' = Append(analyses, FailedAnalysis(vKind, vExc))
          /\ vResponse' = [status |-> 500,
                          body |-> [error |-> <<FailureLabel(vKind), vExc>>]]
          /\ vPc' = "done"
       \/ /\ vResponse' = [status |-> 500, raised |-> DatabaseError]
          /\ vPc' = "raised"
          /\ UNCHANGED analyses
    /\ UNCHANGED <<reqVars, frames, taskRow, subtaskRows, nextId>>
    /\ UNCHANGED <<selVars, agentOpVars, crudVars, beforeVars,
                   otherVars, apiVars>>
    /\ UNCHANGED vPulls

\* An event_stream that goes on to its database writes right after it has
\* yielded the data line of the complete event.
AfterDataYield_RunsOn(event) ==
    IF event.type = "complete" /\ "data" \in DOMAIN event
    THEN "save_task"
    ELSE "yield_data_line"

\* Where event_stream is once it has yielded the data line of an event:
\* suspended at that yield, whatever the event.
AfterDataYield(event) == "yield_data_line"

\* The positions at which event_stream is suspended at a yield.
ViewSuspended ==
    {"created", "yield_event_line", "yield_data_line", "yield_error_line",
     "yield_error_data"}

\* One next() of the response's consumer on event_stream().
ViewStreamPull ==
    /\ vKind = StreamEndpoint
    /\ vPc \in ViewSuspended
    /\ CASE vPc = "created" ->
              IF ctorPc # "constructed"
              THEN /\ ViewRaise(ctorError)
                   /\ UNCHANGED <<vResult, vGen, vEvent, vInvocations>>
              ELSE /\ ViewAdvance([pc |-> "created",
                                   classification |-> NoClassification,
                                   subtasks |-> NoSubtasks])
                   /\ UNCHANGED <<vResult, vExc>>
         [] vPc = "yield_event_line" ->
              /\ frames' = Append(frames, DataLine(JsonDumps(vEvent)))
              /\ vPc' = AfterDataYield(vEvent)
              /\ UNCHANGED <<vResult, vExc, vGen, vEvent, vInvocations>>
         [] vPc = "yield_data_line" ->
              IF vEvent.type = "complete" /\ "data" \in DOMAIN vEvent
              THEN /\ vResult' = vEvent.data
                   /\ vPc' = "save_task"
                   /\ UNCHANGED <<vExc, vGen, vEvent, vInvocations, frames>>
              ELSE /\ ViewAdvance(vGen)
                   /\ UNCHANGED <<vResult, vExc>>
         [] vPc = "yield_error_line" ->
              /\ frames' = Append(frames,
                                  DataLine(JsonDumps([message |-> vExc])))
              /\ vPc' = "yield_error_data"
              /\ UNCHANGED <<vResult, vExc, vGen, vEvent, vInvocations>>
         [] vPc = "yield_error_data" ->
              /\ vPc' = "exhausted"
              /\ UNCHANGED <<vResult, vExc, vGen, vEvent, vInvocations,
                             frames>>
    /\ UNCHANGED <<vKind, vIdx, vResponse, dbVars>>
    /\ UNCHANGED <<selVars, agentOpVars, crudVars, beforeVars,
                   otherVars, apiVars>>
    /\ vPulls' = vPulls + 1

\* The consumer of the response stops reading: event_stream is closed at
\* the yield it is suspended at; GeneratorExit is no Exception.
ViewStopPulling ==
    /\ vKind = StreamEndpoint
    /\ vPc \in ViewSuspended
    /\ vPc' = "closed"
    /\ UNCHANGED <<reqVars, outVars, dbVars>>
    /\ UNCHANGED <<selVars, agentOpVars, crudVars, beforeVars,
                   otherVars, apiVars>>
    /\ UNCHANGED vPulls

(***************************************************************************)
(* A second request, ai_suggest_subtasks on the same task, served by        *)
(* another worker while the first request is being served.  Its writes     *)
(* are the statements of the same view; they go through.                   *)
(***************************************************************************)

\* What the other worker's agent.suggest_subtasks(...) returned.
OtherResult == suggest_subtasks(TaskTitle, TaskDescription).value

\* The other request arrives; its agent is constructed and called.
OtherRequest ==
    /\ ctorPc = "constructed"
    /\ oPc = "idle"
    /\ oPc' = "delete"
    /\ UNCHANGED <<oIdx, viewVars>>
    /\ UNCHANGED <<selVars, agentOpVars, crudVars, apiVars>>

\* Its Subtask.objects.filter(task=task, ai_generated=True).delete()
OtherDeleteGenerated ==
    /\ oPc = "delete"
    /\ subtaskRows' = {row \in subtaskRows : ~row.ai_generated}
    /\ oIdx' = 0
    /\ oPc' = "create"
    /\ UNCHANGED <<vPc, reqVars, outVars, taskRow, nextId, analyses, vPulls,
                   beforeVars>>
    /\ UNCHANGED <<selVars, agentOpVars, crudVars, apiVars>>

\* One pass of its creation loop.
OtherCreateSubtask ==
    /\ oPc = "create"
    /\ oIdx < Len(SubtasksDataOf("ai_suggest_subtasks", OtherResult))
    /\ subtaskRows' = subtaskRows \cup
          {NewSubtask(nextId,
                      SubtasksDataOf("ai_suggest_subtasks",
                                     OtherResult)[oIdx + 1],
                      oIdx)}
    /\ nextId' = nextId + 1
    /\ oIdx' = oIdx + 1
    /\ UNCHANGED <<oPc, vPc, reqVars, outVars, taskRow, analyses, vPulls,
                   beforeVars>>
    /\ UNCHANGED <<selVars, agentOpVars, crudVars, apiVars>>

\* Its loop is over: it logs its analysis and answers.
OtherLogSuccess ==
    /\ oPc = "create"
    /\ oIdx = Len(SubtasksDataOf("ai_suggest_subtasks", OtherResult))
    /\ analyses' = Append(analyses,
                          SuccessAnalysis("ai_suggest_subtasks", OtherResult))
    /\ oPc' = "done"
    /\ UNCHANGED <<oIdx, vPc, reqVars, outVars, taskRow, subtaskRows, nextId,
                   vPulls, beforeVars>>
    /\ UNCHANGED <<selVars, agentOpVars, crudVars, apiVars>>

(***************************************************************************)
(* The rows of the database before a request                               *)
(***************************************************************************)

NoCategory == "<none>"

\* A task nothing has classified, and one classified before.
InitialTasks ==
    { [category |-> NoCategory, priority |-> 3, ai_classified |-> FALSE],
      [category |-> "work", priority |-> 4, ai_classified |-> TRUE] }

ManualSubtask ==
    [id |-> 1, title |-> "Book venue", description |-> "", order |-> 0,
     ai_generated |-> FALSE, completed |-> FALSE]

\* A row an earlier analysis left.
StaleSubtask ==
    [id |-> 2, title |-> "Old step", description |-> "", order |-> 0,
     ai_generated |-> TRUE, completed |-> TRUE]

InitialTables == { {ManualSubtask}, {ManualSubtask, StaleSubtask} }

\* A second row written by hand.
OtherSubtask ==
    [id |-> 3, title |-> "Send invites", description |-> "", order |-> 1,
     ai_generated |-> FALSE, completed |-> TRUE]

FirstFreeId == 4

(***************************************************************************)
(* SubtaskViewSet.toggle                                                   *)
(***************************************************************************)

\* Largest number of toggle requests that are applied.
MaxToggles == 4

\* The primary keys a request may name.
SubtaskIds == {ManualSubtask.id, StaleSubtask.id, OtherSubtask.id}

\* A toggle that marks the subtask completed.
ToggledRow_SetsCompleted(subtask) == [subtask EXCEPT !.completed = TRUE]

\* subtask.completed = not subtask.completed
ToggledRow(subtask) == [subtask EXCEPT !.completed = ~subtask.completed]

\* PATCH /api/subtasks/{pk}/toggle/: get_object() answers 404 when the
\* queryset has no such row; otherwise the row is read, its completed is
\* negated and it is saved.
Toggle ==
    /\ Len(toggled) < MaxToggles
    /\ \E pk \in SubtaskIds :
          IF \E row \in subtaskRows : row.id = pk
          THEN LET subtask == CHOOSE row \in subtaskRows : row.id = pk
               IN /\ subtaskRows' =
                        (subtaskRows \ {subtask}) \cup {ToggledRow(subtask)}
                  /\ toggled' = Append(toggled, pk)
                  /\ vResponse' = [status |-> 200,
                                   body |-> ToggledRow(subtask)]
          ELSE /\ vResponse' = [status |-> 404]
               /\ UNCHANGED <<subtaskRows, toggled>>
    /\ UNCHANGED <<vPc, reqVars, frames, taskRow, nextId, analyses>>
    /\ UNCHANGED <<selVars, agentOpVars, vPulls, beforeVars, otherVars,
                   apiVars>>

(***************************************************************************)
(* The endpoints of TaskViewSet, SubtaskViewSet and AIAnalysisViewSet,     *)
(* each request with its credentials                                       *)
(***************************************************************************)

\* Largest number of requests that are served.
MaxRequests == 2

\* request.user when no authenticator authenticated the request.
AnonymousUser == "AnonymousUser"

AuthenticationFailed == "AuthenticationFailed"

\* No token: Python's None.
NoToken == "<no token>"

\* The Authorization header: absent, or present with the words
\* auth_header.split() gives.
NoAuthorization == [present |-> FALSE]
Authorization(parts) == [present |-> TRUE, parts |-> parts]

\* The access tokens Cognito's get_user accepts, and the user
\* User.objects.get_or_create(cognito_id=...) gives for each.
CognitoUsers ==
    [token \in {"tok-alice", "tok-bob"} |->
        IF token = "tok-alice" THEN "alice" ELSE "bob"]

\* str.lower() on the first word of the header.
Lower(word) == IF word \in {"Bearer", "BEARER", "bearer"} THEN "bearer"
               ELSE word

\* The token the header gives.  parts[0] of a header of blanks raises
\* IndexError, which the except clause swallows.
HeaderToken(auth_header) ==
    IF ~auth_header.present THEN NoToken
    ELSE IF Len(auth_header.parts) = 0 THEN NoToken
    ELSE IF /\ Lower(auth_header.parts[1]) = "bearer"
            /\ Len(auth_header.parts) = 2
         THEN auth_header.parts[2]
         ELSE NoToken

\* The header first, then the 'token' query parameter.
TokenOf(request) ==
    IF HeaderToken(request.header) # NoToken
    THEN HeaderToken(request.header)
    ELSE request.query

\* verify_token with Cognito configured: get_user answers or raises, and
\* every exception leaves as AuthenticationFailed.
verify_token(token) ==
    IF token \in DOMAIN CognitoUsers
    THEN Return(CognitoUsers[token])
    ELSE Raise(AuthenticationFailed)

\* CognitoAuthentication.authenticate.  It returns None without a token,
\* and the request's user is then AnonymousUser.
authenticate(request) ==
    IF TokenOf(request) = NoToken
    THEN Return(AnonymousUser)
    ELSE verify_token(TokenOf(request))

RequestUser(request) ==
    IF authenticate(request).raised THEN AnonymousUser
    ELSE authenticate(request).value

\* permission_classes = [IsAuthenticated]
IsAuthenticated(request) == RequestUser(request) # AnonymousUser

\* No WWW-Authenticate value.
NoChallenge == "None"

\* CognitoAuthentication defines authenticate only; authenticate_header is
\* the one it inherits, which returns None.
authenticate_header == NoChallenge

\* The status of a request that is not authenticated: 401 goes with a
\* WWW-Authenticate header, and without one the framework answers 403.
UnauthenticatedStatus == IF authenticate_header = NoChallenge THEN 403
                         ELSE 401

\* The credentials a request may carry.
Credentials ==
    { [header |-> NoAuthorization, query |-> NoToken],
      [header |-> Authorization(<<"Bearer">>), query |-> NoToken],
      [header |-> Authorization(<<"Basic", "tok-alice">>), query |-> NoToken],
      [header |-> Authorization(<<"Bearer", "tok-alice">>), query |-> NoToken],
      [header |-> NoAuthorization, query |-> "tok-bob"],
      [header |-> Authorization(<<"bearer", "expired">>), query |-> NoToken] }

NoPk == 0
NoData == [empty |-> TRUE]

Request(credentials, view, action, pk, data) ==
    [header |-> credentials.header, query |-> credentials.query,
     view |-> view, action |-> action, pk |-> pk, data |-> data]

NoRequest == [view |-> "none"]

\* The rows before any request: a task of alice and a task of bob, each
\* with one subtask and one analysis.
ApiTasksInitial ==
    { [id |-> 1, user |-> "alice", title |-> TaskTitle,
       status |-> "pending", category |-> NoCategory, priority |-> 3,
       ai_classified |-> FALSE],
      [id |-> 2, user |-> "bob", title |-> "Pay invoices",
       status |-> "completed", category |-> "work", priority |-> 4,
       ai_classified |-> TRUE] }

ApiSubtasksInitial ==
    { [id |-> 1, task |-> 1, title |-> "Book venue", description |-> "",
       order |-> 0, ai_generated |-> FALSE, completed |-> FALSE],
      [id |-> 2, task |-> 2, title |-> "Old step", description |-> "",
       order |-> 0, ai_generated |-> TRUE, completed |-> TRUE] }

ApiAnalysesInitial ==
    { [id |-> 1, task |-> 1, analysis_type |-> "classification",
       success |-> FALSE],
      [id |-> 2, task |-> 2, analysis_type |-> "classification",
       success |-> TRUE] }

FirstApiId == 3

\* The primary keys a request may name; 9 names no row.
TaskPks == {1, 2, 9}
SubtaskPks == {1, 2, FirstApiId}
AnalysisPks == {1, 2}

ApiTables == [tasks |-> apiTasks, subtasks |-> apiSubtasks,
              analyses |-> apiAnalyses]

\* Task.objects.filter(user=self.request.user)
TaskQueryset(user) == {task \in apiTasks : task.user = user}

\* Subtask.objects.filter(task__user=self.request.user)
SubtaskQueryset(user) ==
    {subtask \in apiSubtasks :
        \E task \in apiTasks : task.id = subtask.task /\ task.user = user}

\* AIAnalysis.objects.filter(task__user=self.request.user)
AnalysisQueryset(user) ==
    {analysis \in apiAnalyses :
        \E task \in apiTasks : task.id = analysis.task /\ task.user = user}

\* What serving a request comes to: the response and the rows after it.
Outcome(status, data, tasks, subtasks, next_id) ==
    [status |-> status, data |-> data, tasks |-> tasks,
     subtasks |-> subtasks, nextId |-> next_id]

\* A response that writes nothing.
Keep(status, data) ==
    Outcome(status, data, apiTasks, apiSubtasks, apiNextId)

\* Authentication and permission come before the handler.
Handle(request, handled) ==
    IF IsAuthenticated(request) THEN handled
    ELSE Keep(UnauthenticatedStatus, {})

\* get_object(): the row of the queryset with this primary key, or 404.
Has(queryset, pk) == \E row \in queryset : row.id = pk
GetObject(queryset, pk) == CHOOSE row \in queryset : row.id = pk

Serve(request, outcome) ==
    /\ apiRequest' = request
    /\ apiResponse' = [status |-> outcome.status, data |-> outcome.data]
    /\ apiTasks' = outcome.tasks
    /\ apiSubtasks' = outcome.subtasks
    /\ apiNextId' = outcome.nextId
    /\ apiBefore' = ApiTables
    /\ apiCalls' = apiCalls + 1
    /\ UNCHANGED apiAnalyses
    /\ UNCHANGED <<selVars, agentOpVars, viewVars, crudVars, otherVars>>

\* A complete that also marks the task classified.
CompletedRow_Classifies(task) ==
    [task EXCEPT !.status = "completed", !.ai_classified = TRUE]

\* task.status = 'completed'
CompletedRow(task) == [task EXCEPT !.status = "completed"]

\* task.status = 'pending'
ReopenedRow(task) == [task EXCEPT !.status = "pending"]

\* GET /api/tasks/
ApiTaskList ==
    /\ apiCalls < MaxRequests
    /\ \E credentials \in Credentials :
          LET request == Request(credentials, "tasks", "list", NoPk, NoData)
          IN Serve(request,
                   Handle(request,
                          Keep(200, TaskQueryset(RequestUser(request)))))

\* GET /api/tasks/{pk}/
ApiTaskRetrieve ==
    /\ apiCalls < MaxRequests
    /\ \E credentials \in Credentials, pk \in TaskPks :
          LET request == Request(credentials, "tasks", "retrieve", pk, NoData)
              queryset == TaskQueryset(RequestUser(request))
          IN Serve(request,
                   Handle(request,
                          IF Has(queryset, pk)
                          THEN Keep(200, {GetObject(queryset, pk)})
                          ELSE Keep(404, {})))

\* PATCH /api/tasks/{pk}/ with a priority; validate_priority wants 1..5.
ApiTaskUpdate ==
    /\ apiCalls < MaxRequests
    /\ \E credentials \in Credentials, pk \in TaskPks, priority \in {5, 6} :
          LET request == Request(credentials, "tasks", "partial_update", pk,
                                 [priority |-> priority])
              queryset == TaskQueryset(RequestUser(request))
              task == GetObject(queryset, pk)
              saved == [task EXCEPT !.priority = priority]
          IN Serve(request,
                   Handle(request,
                          IF ~Has(queryset, pk) THEN Keep(404, {})
                          ELSE IF priority < 1 \/ priority > 5
                               THEN Keep(400, {})
                               ELSE Outcome(200, {saved},
                                            (apiTasks \ {task}) \cup {saved},
                                            apiSubtasks, apiNextId)))

\* POST /api/tasks/{pk}/complete/
ApiTaskComplete ==
    /\ apiCalls < MaxRequests
    /\ \E credentials \in Credentials, pk \in TaskPks :
          LET request == Request(credentials, "tasks", "complete", pk, NoData)
              queryset == TaskQueryset(RequestUser(request))
              task == GetObject(queryset, pk)
          IN Serve(request,
                   Handle(request,
                          IF ~Has(queryset, pk) THEN Keep(404, {})
                          ELSE Outcome(200, {CompletedRow(task)},
                                       (apiTasks \ {task})
                                          \cup {CompletedRow(task)},
                                       apiSubtasks, apiNextId)))

\* POST /api/tasks/{pk}/reopen/
ApiTaskReopen ==
    /\ apiCalls < MaxRequests
    /\ \E credentials \in Credentials, pk \in TaskPks :
          LET request == Request(credentials, "tasks", "reopen", pk, NoData)
              queryset == TaskQueryset(RequestUser(request))
              task == GetObject(queryset, pk)
          IN Serve(request,
                   Handle(request,
                          IF ~Has(queryset, pk) THEN Keep(404, {})
                          ELSE Outcome(200, {ReopenedRow(task)},
                                       (apiTasks \ {task})
                                          \cup {ReopenedRow(task)},
                                       apiSubtasks, apiNextId)))

\* GET /api/subtasks/
ApiSubtaskList ==
    /\ apiCalls < MaxRequests
    /\ \E credentials \in Credentials :
          LET request == Request(credentials, "subtasks", "list", NoPk, NoData)
          IN Serve(request,
                   Handle(request,
                          Keep(200, SubtaskQueryset(RequestUser(request)))))

\* GET /api/subtasks/{pk}/
ApiSubtaskRetrieve ==
    /\ apiCalls < MaxRequests
    /\ \E credentials \in Credentials, pk \in SubtaskPks :
          LET request == Request(credentials, "subtasks", "retrieve", pk,
                                 NoData)
              queryset == SubtaskQueryset(RequestUser(request))
          IN Serve(request,
                   Handle(request,
                          IF Has(queryset, pk)
                          THEN Keep(200, {GetObject(queryset, pk)})
                          ELSE Keep(404, {})))

\* The fields a client posts to create a subtask of the task it names.
SubtaskData(task) ==
    [task |-> task, title |-> "Subtask 1",
     description |-> "Subtask description", order |-> 1,
     ai_generated |-> FALSE, completed |-> FALSE]

\* The serializer's 'task' field takes the primary key of any row of
\* Task: Task.objects.all() is what it is looked up in.
TaskFieldValid(task) == \E row \in apiTasks : row.id = task

\* The row a valid payload is saved as.
CreatedSubtask(id, data) ==
    [id |-> id, task |-> data.task, title |-> data.title,
     description |-> data.description, order |-> data.order,
     ai_generated |-> data.ai_generated, completed |-> data.completed]

\* POST /api/subtasks/: the serializer validates the payload and saves it.
ApiSubtaskCreate ==
    /\ apiCalls < MaxRequests
    /\ \E credentials \in Credentials, task \in TaskPks :
          LET request == Request(credentials, "subtasks", "create", NoPk,
                                 SubtaskData(task))
              created == CreatedSubtask(apiNextId, request.data)
          IN Serve(request,
                   Handle(request,
                          IF ~TaskFieldValid(task) THEN Keep(400, {})
                          ELSE Outcome(201, {created}, apiTasks,
                                       apiSubtasks \cup {created},
                                       apiNextId + 1)))

\* PATCH /api/subtasks/{pk}/ with a task: the subtask is one of the
\* queryset, the task any row of Task.
ApiSubtaskUpdate ==
    /\ apiCalls < MaxRequests
    /\ \E credentials \in Credentials, pk \in SubtaskPks, task \in TaskPks :
          LET request == Request(credentials, "subtasks", "partial_update", pk,
                                 [task |-> task])
              queryset == SubtaskQueryset(RequestUser(request))
              subtask == GetObject(queryset, pk)
              saved == [subtask EXCEPT !.task = task]
          IN Serve(request,
                   Handle(request,
                          IF ~Has(queryset, pk) THEN Keep(404, {})
                          ELSE IF ~TaskFieldValid(task) THEN Keep(400, {})
                               ELSE Outcome(200, {saved}, apiTasks,
                                            (apiSubtasks \ {subtask})
                                               \cup {saved},
                                            apiNextId)))

\* PATCH /api/subtasks/{pk}/toggle/
ApiSubtaskToggle ==
    /\ apiCalls < MaxRequests
    /\ \E credentials \in Credentials, pk \in SubtaskPks :
          LET request == Request(credentials, "subtasks", "toggle", pk, NoData)
              queryset == SubtaskQueryset(RequestUser(request))
              subtask == GetObject(queryset, pk)
          IN Serve(request,
                   Handle(request,
                          IF ~Has(queryset, pk) THEN Keep(404, {})
                          ELSE Outcome(200, {ToggledRow(subtask)}, apiTasks,
                                       (apiSubtasks \ {subtask})
                                          \cup {ToggledRow(subtask)},
                                       apiNextId)))

\* DELETE /api/subtasks/{pk}/
ApiSubtaskDestroy ==
    /\ apiCalls < MaxRequests
    /\ \E credentials \in Credentials, pk \in SubtaskPks :
          LET request == Request(credentials, "subtasks", "destroy", pk, NoData)
              queryset == SubtaskQueryset(RequestUser(request))
          IN Serve(request,
                   Handle(request,
                          IF ~Has(queryset, pk) THEN Keep(404, {})
                          ELSE Outcome(204, {}, apiTasks,
                                       apiSubtasks \ {GetObject(queryset, pk)},
                                       apiNextId)))

\* GET /api/ai-analyses/
ApiAnalysisList ==
    /\ apiCalls < MaxRequests
    /\ \E credentials \in Credentials :
          LET request == Request(credentials, "ai-analyses", "list", NoPk,
                                 NoData)
          IN Serve(request,
                   Handle(request,
                          Keep(200, AnalysisQueryset(RequestUser(request)))))

\* GET /api/ai-analyses/{pk}/
ApiAnalysisRetrieve ==
    /\ apiCalls < MaxRequests
    /\ \E credentials \in Credentials, pk \in AnalysisPks :
          LET request == Request(credentials, "ai-analyses", "retrieve", pk,
                                 NoData)
              queryset == AnalysisQueryset(RequestUser(request))
          IN Serve(request,
                   Handle(request,
                          IF Has(queryset, pk)
                          THEN Keep(200, {GetObject(queryset, pk)})
                          ELSE Keep(404, {})))

\* No request has been served.
ApiIdle ==
    /\ apiTasks = ApiTasksInitial
    /\ apiSubtasks = ApiSubtasksInitial
    /\ apiAnalyses = ApiAnalysesInitial
    /\ apiNextId = FirstApiId
    /\ apiRequest = NoRequest
    /\ apiResponse = NoResponse
    /\ apiBefore = ApiTables
    /\ apiCalls = 0

(***************************************************************************)
(* Specifications                                                          *)
(***************************************************************************)

\* No operation of the agent has been called.
OpIdle ==
    /\ aCalls = <<>>
    /\ sCalls = <<>>
    /\ classifyOut = NoOutcome
    /\ suggestOut = NoOutcome
    /\ aPc = "idle"
    /\ aClassification = NoClassification
    /\ aOut = NoOutcome
    /\ sPc = "idle"
    /\ sClassification = NoClassification
    /\ sSubtasks = NoSubtasks
    /\ events = <<>>
    /\ pulls = 0
    /\ aInFlight = {}
    /\ sInFlight = {}
    /\ s2Pc = "idle"
    /\ s2Classification = NoClassification
    /\ s2Subtasks = NoSubtasks
    /\ events2 = <<>>
    /\ s2Calls = <<>>

\* No request has been made.
ViewIdle ==
    /\ vKind = "none"
    /\ vPc = "idle"
    /\ vResult = NoResult
    /\ vExc = NoError
    /\ vIdx = 0
    /\ vGen = NoGenerator
    /\ vEvent = NoEvent
    /\ vInvocations = <<>>
    /\ vResponse = NoResponse
    /\ frames = <<>>
    /\ vPulls = 0
    /\ toggled = <<>>
    /\ oPc = "idle"
    /\ oIdx = 0
    /\ ApiIdle

\* The database before the request.
DbInitial ==
    /\ taskRow \in InitialTasks
    /\ subtaskRows \in InitialTables
    /\ nextId = FirstFreeId
    /\ analyses = <<>>
    /\ dbBefore = [task |-> taskRow, subtasks |-> subtaskRows,
                   analyses |-> analyses]

\* One database for the behaviours that make no request.
DbFixed ==
    /\ taskRow = [category |-> NoCategory, priority |-> 3,
                  ai_classified |-> FALSE]
    /\ subtaskRows = {ManualSubtask}
    /\ nextId = FirstFreeId
    /\ analyses = <<>>
    /\ dbBefore = [task |-> taskRow, subtasks |-> subtaskRows,
                   analyses |-> analyses]

\* A backend is a deterministic function of the request.
BackendBehaviours == [classification : ClsResponses, subtasks : SubResponses]

\* One environment per backend in which construction binds that backend.
EnvBinding(b) ==
    [ ollama_init    |-> IF b = "openai" THEN "OtherError" ELSE "ok",
      ollama_probe   |-> IF b = "ollama" THEN "ok" ELSE "OtherError",
      anthropic_key  |-> IF b = "openai" THEN KeyUnset ELSE "sk-key",
      anthropic_init |-> "ok",
      openai_key     |-> "sk-key",
      openai_init    |-> "ok" ]

\* The state right after TaskAIAgent(...) returned with backend b bound.
Constructed(b) ==
    /\ env = EnvBinding(b)
    /\ ctorPc = "constructed"
    /\ use_fallback = TRUE
    /\ llm = b
    /\ ctorError = NoError
    /\ probeCalls = IF b = "openai" THEN 0 ELSE 1
    /\ consulted = CASE b = "ollama" -> <<>>
                     [] b = "anthropic" -> <<"anthropic">>
                     [] OTHER -> <<"anthropic", "openai">>

\* Construction of an agent: backend selection only.
SelectSpecInit ==
    /\ SelectInit
    /\ backend \in {b \in BackendBehaviours :
                      b.classification.kind = "raise"
                      /\ b.subtasks.kind = "raise"}
    /\ OpIdle
    /\ ViewIdle
    /\ DbFixed

SpecSelect == SelectSpecInit /\ [][SelectNext]_vars

\* The operations of a constructed agent.
Init ==
    /\ \E b \in Backends : Constructed(b)
    /\ backend \in BackendBehaviours
    /\ OpIdle
    /\ ViewIdle
    /\ DbFixed

Next ==
    \/ ClassifyTask
    \/ SuggestSubtasks
    \/ AnalyzeCall
    \/ AnalyzeClassified
    \/ AnalyzeReturn
    \/ StreamInvoke
    \/ PullStart
    \/ PullClassificationAnnounce
    \/ PullClassify
    \/ StreamClassified
    \/ PullSubtasksAnnounce
    \/ PullSuggest
    \/ StreamSuggested
    \/ PullComplete
    \/ PullEnd
    \/ PullExhausted
    \/ StopPulling

Spec == Init /\ [][Next]_vars

\* One stream whose consumer pulls it and may throw an exception into it.
ThrowNext ==
    \/ StreamInvoke
    \/ PullStart
    \/ PullClassificationAnnounce
    \/ PullClassify
    \/ StreamClassified
    \/ PullSubtasksAnnounce
    \/ PullSuggest
    \/ StreamSuggested
    \/ PullComplete
    \/ PullEnd
    \/ ConsumerThrow

SpecThrow == Init /\ [][ThrowNext]_vars

\* Two generators of one agent, pulled in any interleaving; the first may
\* also be pulled after it is exhausted.
StreamsNext ==
    \/ StreamInvoke
    \/ PullStart
    \/ PullClassificationAnnounce
    \/ PullClassify
    \/ StreamClassified
    \/ PullSubtasksAnnounce
    \/ PullSuggest
    \/ StreamSuggested
    \/ PullComplete
    \/ PullEnd
    \/ PullExhausted
    \/ Stream2Invoke
    \/ Stream2Pull

SpecStreams == Init /\ [][StreamsNext]_vars

\* The state right after TaskAIAgent(...) raised: no backend answers the
\* probe and no credential is set.
ConstructionFailed ==
    /\ env = [ollama_init |-> "ok", ollama_probe |-> "OtherError",
              anthropic_key |-> KeyUnset, anthropic_init |-> "ok",
              openai_key |-> KeyUnset, openai_init |-> "ok"]
    /\ ctorPc = "failed"
    /\ use_fallback = TRUE
    /\ llm = NoBackend
    /\ ctorError = RuntimeError
    /\ probeCalls = 1
    /\ consulted = <<"anthropic", "openai">>

\* The classification answers the requests are served with.
ViewClsResponses ==
    {c \in ClsResponses :
        \/ c.kind = "raise"
        \/ c.kind = "json" /\ c.absent = {}
              /\ c.category \in {"work", "shopping"}}

\* One request to an AI endpoint of a task.
ViewsInit ==
    /\ Constructed("ollama") \/ ConstructionFailed
    /\ backend \in {b \in BackendBehaviours :
                      b.classification \in ViewClsResponses}
    /\ OpIdle
    /\ ViewIdle
    /\ DbInitial

ViewsNext ==
    \/ ViewRequest
    \/ ViewCallAgent
    \/ ViewSaveTask
    \/ ViewDeleteGenerated
    \/ ViewCreateSubtask
    \/ ViewLogSuccess
    \/ ViewExcept
    \/ ViewStreamPull
    \/ ViewStopPulling

SpecViews == ViewsInit /\ [][ViewsNext]_vars

\* Two requests on one task served by two workers: the agents are
\* constructed and the backend answers with valid objects.
RaceInit ==
    /\ Constructed("ollama")
    /\ backend \in {b \in BackendBehaviours :
                      /\ b.classification = ClsObject("work", 4, {})
                      /\ b.subtasks.kind = "json"
                      /\ b.subtasks.absent = {}
                      /\ SubtaskListValid(b.subtasks)}
    /\ OpIdle
    /\ ViewIdle
    /\ DbInitial

RaceNext ==
    \/ ViewRequest
    \/ ViewCallAgent
    \/ ViewSaveTask
    \/ ViewDeleteGenerated
    \/ ViewCreateSubtask
    \/ ViewLogSuccess
    \/ ViewExcept
    \/ ViewStreamPull
    \/ ViewStopPulling
    \/ OtherRequest
    \/ OtherDeleteGenerated
    \/ OtherCreateSubtask
    \/ OtherLogSuccess

SpecRace == RaceInit /\ [][RaceNext]_vars

\* The tables the toggle requests start from.
CrudTables ==
    (SUBSET {ManualSubtask, StaleSubtask, OtherSubtask}) \ {{}}

CrudInit ==
    /\ Constructed("ollama")
    /\ backend \in {b \in BackendBehaviours :
                      b.classification.kind = "raise"
                      /\ b.subtasks.kind = "raise"}
    /\ OpIdle
    /\ ViewIdle
    /\ taskRow = [category |-> NoCategory, priority |-> 3,
                  ai_classified |-> FALSE]
    /\ subtaskRows \in CrudTables
    /\ nextId = FirstFreeId
    /\ analyses = <<>>
    /\ dbBefore = [task |-> taskRow, subtasks |-> subtaskRows,
                   analyses |-> analyses]

CrudNext == Toggle

SpecCrud == CrudInit /\ [][CrudNext]_vars

\* The REST endpoints: requests served one at a time.
ApiInit ==
    /\ Constructed("ollama")
    /\ backend \in {b \in BackendBehaviours :
                      b.classification.kind = "raise"
                      /\ b.subtasks.kind = "raise"}
    /\ OpIdle
    /\ ViewIdle
    /\ DbFixed

ApiNext ==
    \/ ApiTaskList
    \/ ApiTaskRetrieve
    \/ ApiTaskUpdate
    \/ ApiTaskComplete
    \/ ApiTaskReopen
    \/ ApiSubtaskList
    \/ ApiSubtaskRetrieve
    \/ ApiSubtaskCreate
    \/ ApiSubtaskUpdate
    \/ ApiSubtaskToggle
    \/ ApiSubtaskDestroy
    \/ ApiAnalysisList
    \/ ApiAnalysisRetrieve

SpecApi == ApiInit /\ [][ApiNext]_vars

(***************************************************************************)
(* Properties of backend selection (checked under SpecSelect)              *)
(***************************************************************************)

\* The constructor has returned or raised.
CtorEnded == ctorPc \in {"constructed", "failed"}

\* The primary fails: the Ollama client cannot be built or the probe raises.
PrimaryFails == env.ollama_init # "ok" \/ env.ollama_probe # "ok"

\* A credential is present: the variable is set and not empty.
CredentialPresent(key) == key \notin {KeyUnset, ""}

ProviderKey(p)  == IF p = "anthropic" THEN env.anthropic_key ELSE env.openai_key
ProviderInit(p) == IF p = "anthropic" THEN env.anthropic_init ELSE env.openai_init

\* The provider's credential is present and its client library is available.
Qualifies(p) ==
    CredentialPresent(ProviderKey(p)) /\ ProviderInit(p) # "ImportError"

\* The provider's credential is present and its client can be initialized.
CanInitialize(p) ==
    CredentialPresent(ProviderKey(p)) /\ ProviderInit(p) = "ok"

\* C7: when the primary fails and use_fallback is false, construction fails
\* at once with RuntimeError (the backend-unavailable error): no fallback
\* provider is consulted and no backend is bound, whatever keys are set.
C7_NoFallbackWhenDisabled ==
    (ctorPc # "new" /\ ~use_fallback /\ PrimaryFails) =>
        /\ consulted = <<>>
        /\ llm = NoBackend
        /\ ctorPc \in {"init_ollama", "probe", "except", "failed"}
        /\ ctorPc = "failed" => ctorError = RuntimeError

C7_Witness ==
    /\ ctorPc = "failed"
    /\ ~use_fallback
    /\ env.ollama_probe # "ok"
    /\ CanInitialize("anthropic")
    /\ CanInitialize("openai")

\* C8: when the primary fails and fallback is enabled, providers are
\* consulted in the order Anthropic, OpenAI, and a bound backend is the
\* first provider in that order whose credential is present and whose
\* client library is available; with only the OpenAI credential set,
\* OpenAI is bound.
C8_FirstQualifyingProvider ==
    /\ \/ consulted = <<>>
       \/ consulted = <<"anthropic">>
       \/ consulted = <<"anthropic", "openai">>
    /\ (ctorPc = "constructed" /\ PrimaryFails) =>
          /\ use_fallback
          /\ llm \in Providers
          /\ Qualifies(llm)
          /\ llm = "openai" => ~Qualifies("anthropic")
    /\ (CtorEnded /\ PrimaryFails /\ use_fallback
          /\ CanInitialize("anthropic")) => llm = "anthropic"
    /\ (CtorEnded /\ PrimaryFails /\ use_fallback
          /\ ~CredentialPresent(env.anthropic_key)
          /\ CanInitialize("openai")) => llm = "openai"

C8_Witness ==
    /\ ctorPc = "constructed"
    /\ PrimaryFails
    /\ llm = "openai"
    /\ ~CredentialPresent(env.anthropic_key)
    /\ consulted = <<"anthropic", "openai">>

\* C9: construction fails only if no backend initializes: when the primary
\* fails, fallback is enabled and some provider has its credential set and
\* can be initialized, a backend is bound; and every failure of the
\* constructor is RuntimeError.
C9_FailsOnlyIfNoBackend ==
    CtorEnded =>
        /\ ctorPc = "failed" => ctorError = RuntimeError
        /\ (PrimaryFails /\ use_fallback
              /\ \E p \in Providers : CanInitialize(p)) =>
                 (ctorPc = "constructed" /\ llm \in Providers)

\* C10 as stated: a successful probe binds the primary and consults no
\* provider; every selection pass makes exactly one probe call.
C10_ExactlyOneProbe ==
    /\ (CtorEnded /\ ~PrimaryFails) =>
          (ctorPc = "constructed" /\ llm = "ollama" /\ consulted = <<>>)
    /\ CtorEnded => probeCalls = 1

\* C10 amended: a successful probe binds the primary and consults no
\* provider; a selection pass makes one probe call when the Ollama client
\* was built and none when building it failed, never a second one, and the
\* agent's operations issue no backend call during selection.
C10_AtMostOneProbe ==
    /\ (CtorEnded /\ ~PrimaryFails) =>
          (ctorPc = "constructed" /\ llm = "ollama" /\ consulted = <<>>)
    /\ probeCalls <= 1
    /\ CtorEnded => probeCalls = IF env.ollama_init = "ok" THEN 1 ELSE 0
    /\ aCalls = <<>> /\ sCalls = <<>>

C10_Witness ==
    /\ ctorPc = "constructed"
    /\ llm = "ollama"
    /\ probeCalls = 1
    /\ CanInitialize("anthropic")
    /\ CanInitialize("openai")

(***************************************************************************)
(* Properties of the agent's operations (checked under Spec)               *)
(***************************************************************************)

StepRank(step) ==
    CASE step = "initialization" -> 0
      [] step = "classification" -> 1
      [] step = "subtasks"       -> 2
      [] step = "done"           -> 3
      [] OTHER                   -> 4

EventsOfType(t) == {i \in 1..Len(events) : events[i].type = t}

\* C1: the events of a stream never go back to an earlier step, and a
\* stream pulled to exhaustion has emitted one start event first, then
\* classification events, then subtasks events, then one complete event
\* (step done) last, whatever the backend answers.
C1_StreamOrder ==
    /\ \A i, j \in 1..Len(events) :
          i < j => StepRank(events[i].step) <= StepRank(events[j].step)
    /\ sPc = "exhausted" =>
          /\ Len(events) >= 2
          /\ events[1].type = "start"
          /\ events[1].step = "initialization"
          /\ EventsOfType("start") = {1}
          /\ events[Len(events)].type = "complete"
          /\ events[Len(events)].step = "done"
          /\ EventsOfType("complete") = {Len(events)}
          /\ \A i \in 2..(Len(events) - 1) :
                events[i].step \in {"classification", "subtasks"}
          /\ \E i \in 2..(Len(events) - 1) : events[i].step = "classification"
          /\ \E i \in 2..(Len(events) - 1) : events[i].step = "subtasks"

C1_Witness ==
    /\ sPc = "exhausted"
    /\ backend.classification.kind = "raise"
    /\ backend.subtasks.kind = "garbage"
    /\ Len(events) = 6

\* The stream has yielded its complete event.
StreamCompleted == sPc \in {"yield_complete", "exhausted"}

\* C2: with the same task and the same deterministic backend, analyze_task
\* returns, and the data of the stream's complete event is the dict it
\* returns, on the failure paths too.
C2_CompleteEqualsAnalyze ==
    (StreamCompleted /\ aPc \in {"done", "raised"}) =>
        /\ ~aOut.raised
        /\ events[Len(events)].type = "complete"
        /\ events[Len(events)].data = aOut.value

C2_Witness ==
    /\ StreamCompleted
    /\ aPc = "done"
    /\ backend.classification.kind = "garbage"
    /\ backend.subtasks.kind = "raise"
    /\ events[Len(events)].data.classification.reasoning
         = <<"Classification unavailable: ", "OutputParserException">>
    /\ events[Len(events)].data.subtasks.reasoning
         = <<"Subtask generation unavailable: ", "ConnectionError">>

\* What a backend failure of the given kind reads as in str(e).
FailureText(response) ==
    IF response.kind = "raise" THEN response.exc ELSE "OutputParserException"

\* C3: classify_task, suggest_subtasks and analyze_task never raise; when
\* the backend raises or answers text that cannot be parsed, classify_task
\* returns category other, priority 3 and a reasoning with the failure
\* text, and suggest_subtasks returns no subtasks and a reasoning with the
\* failure text; with a backend that raises on both requests analyze_task
\* returns category other and subtasks [].
C3_NeverRaises ==
    /\ ~classifyOut.raised
    /\ ~suggestOut.raised
    /\ aPc # "raised" /\ ~aOut.raised
    /\ (classifyOut # NoOutcome
          /\ backend.classification.kind \in {"raise", "garbage"}) =>
          classifyOut.value =
              [category  |-> "other",
               reasoning |-> <<"Classification unavailable: ",
                               FailureText(backend.classification)>>,
               priority  |-> 3]
    /\ (suggestOut # NoOutcome
          /\ backend.subtasks.kind \in {"raise", "garbage"}) =>
          suggestOut.value =
              [subtasks  |-> <<>>,
               reasoning |-> <<"Subtask generation unavailable: ",
                               FailureText(backend.subtasks)>>]
    /\ (aPc = "done" /\ backend.classification.kind = "raise"
          /\ backend.subtasks.kind = "raise") =>
          /\ aOut.value.classification.category = "other"
          /\ aOut.value.subtasks.subtasks = <<>>

C3_Witness ==
    /\ aPc = "done"
    /\ backend.classification.kind = "raise"
    /\ backend.subtasks.kind = "raise"
    /\ classifyOut # NoOutcome
    /\ suggestOut # NoOutcome

\* The categories the model is asked for.
RequestedCategories == {"personal", "work", "urgent"}

\* The backend answered the classification request with a JSON object that
\* has every field, a requested category and a priority in 1..5.
SchemaValidClassification ==
    /\ backend.classification.kind = "json"
    /\ backend.classification.absent = {}
    /\ backend.classification.category \in RequestedCategories
    /\ backend.classification.priority \in 1..5

\* The classification is legal: priority in 1..5, category one of the
\* enumerated values, and other only when the request failed.
LegalClassification(c) ==
    /\ c.priority \in 1..5
    /\ c.category \in RequestedCategories \cup {"other"}
    /\ c.category = "other" =>
          c.reasoning[1] = "Classification unavailable: "

\* C4: whatever the backend answers, the classification returned by
\* classify_task and by analyze_task has priority in 1..5 and category in
\* {personal, work, urgent, other}, other only as the failure default.
C4_ClassificationInRange ==
    /\ classifyOut # NoOutcome =>
          (~classifyOut.raised /\ LegalClassification(classifyOut.value))
    /\ aPc = "done" => LegalClassification(aOut.value.classification)

\* C5: a backend answer that parses but violates the classification schema
\* (category not enumerated, priority outside 1..5, a missing field) makes
\* classify_task return the safe default: category other, priority 3, none
\* of the answer's fields kept.
C5_SchemaViolationIsFailure ==
    (classifyOut # NoOutcome /\ backend.classification.kind = "json"
        /\ ~SchemaValidClassification) =>
        classifyOut.value =
            [category  |-> "other",
             reasoning |-> <<"Classification unavailable: ",
                             "OutputParserException">>,
             priority  |-> 3]

\* C6: analyze_task issues the classification request and then the subtask
\* request, each once, whether classification gave a model result or the
\* default; its dict holds both entries, and each entry is what the request
\* gives when it is made alone.
C6_BothAlwaysRun ==
    /\ aPc = "idle" => aCalls = <<>>
    /\ aPc = "classify" => aCalls = <<"classification">>
    /\ aPc \in {"suggest", "done"} =>
          aCalls = <<"classification", "subtasks">>
    /\ aPc # "raised"
    /\ aPc = "done" =>
          /\ DOMAIN aOut.value = {"classification", "subtasks"}
          /\ classifyOut # NoOutcome =>
                aOut.value.classification = classifyOut.value
          /\ suggestOut # NoOutcome =>
                aOut.value.subtasks = suggestOut.value

C6_Witness ==
    /\ aPc = "done"
    /\ classifyOut # NoOutcome
    /\ suggestOut # NoOutcome
    /\ aOut.value.classification.category = "other"
    /\ backend.classification.kind = "raise"
    /\ Len(aOut.value.subtasks.subtasks) = 2

\* The kinds of request in a sequence of issued calls.
Issued(calls) == {calls[i] : i \in 1..Len(calls)}

\* C11: the backend bound at construction is never changed afterwards: no
\* step of classify_task, suggest_subtasks, analyze_task or
\* analyze_task_stream, a failing backend included, changes self.llm or
\* runs any part of the selection again.
C11_BackendNeverRebound ==
    [][ctorPc = "constructed" =>
          /\ llm' = llm
          /\ ctorPc' = "constructed"
          /\ probeCalls' = probeCalls
          /\ consulted' = consulted
          /\ use_fallback' = use_fallback]_vars

C11_Witness ==
    /\ llm = "anthropic"
    /\ backend.classification.kind = "raise"
    /\ backend.subtasks.kind = "raise"
    /\ classifyOut # NoOutcome
    /\ suggestOut # NoOutcome
    /\ aPc = "done"
    /\ sPc = "exhausted"

\* C12: within one analyze_task call and within one stream at most one
\* backend call is outstanding; the subtask request is outstanding only
\* after the classification request has come back.
C12_AtMostOneOutstanding ==
    /\ Cardinality(aInFlight) <= 1
    /\ Cardinality(sInFlight) <= 1
    /\ "subtasks" \in aInFlight =>
          /\ "classification" \notin aInFlight
          /\ aClassification # NoClassification
    /\ "subtasks" \in sInFlight =>
          /\ "classification" \notin sInFlight
          /\ sClassification # NoClassification
          /\ Len(events) >= 3

C12_Witness ==
    /\ aInFlight = {"subtasks"}
    /\ sInFlight = {"subtasks"}

\* C13: the stream is pull-driven: it emits at most one event per next() of
\* the consumer, issues the classification request only on the pull after
\* the classification announcement and the subtask request only on the
\* pull after the subtasks announcement, issues no request in a step that
\* is no pull, and once the consumer has stopped pulling it issues no
\* further request and emits no further event.
C13_PullDriven ==
    /\ [](/\ Len(events) <= pulls
          /\ "classification" \in Issued(sCalls) =>
                /\ pulls >= 3
                /\ Len(events) >= 2
                /\ events[2].type = "progress"
                /\ events[2].step = "classification"
                /\ "data" \notin DOMAIN events[2]
          /\ "subtasks" \in Issued(sCalls) =>
                /\ pulls >= 5
                /\ Len(events) >= 4
                /\ events[4].type = "progress"
                /\ events[4].step = "subtasks"
                /\ "data" \notin DOMAIN events[4])
    /\ [][pulls' = pulls => sCalls' = sCalls]_vars
    /\ [][sPc = "closed" =>
             (sPc' = "closed" /\ events' = events /\ sCalls' = sCalls)]_vars

C13_Witness ==
    /\ sPc = "closed"
    /\ pulls = 2
    /\ Len(events) = 2
    /\ sCalls = <<>>
    /\ aPc = "done"

\* The last event of the stream.
LastEvent == events[Len(events)]

\* The generator was resumed by something that is no next().
ThrownInto == pulls' = pulls /\ sPc \in YieldsInTry /\ sPc' # sPc

\* C14: an exception raised inside a phase's try region makes the stream emit
\* the error event of that phase; the phase's default (category 'other',
\* priority 3; subtasks []) replaces its result, the subtasks phase still
\* runs after a failed classification, and the complete event carries the
\* substituted default.
C14_PhaseErrorRecovered ==
    /\ [][ThrownInto =>
            /\ Len(events') = Len(events) + 1
            /\ events'[Len(events')].type = "error"
            /\ events'[Len(events')].step =
                  (IF sPc = "yield_classification_result"
                   THEN "classification" ELSE "subtasks")
            /\ sPc' \in Suspended]_vars
    /\ [](\A i \in 1..Len(events) :
            events[i].type = "error" =>
              /\ events[i].step \in {"classification", "subtasks"}
              /\ (events[i].step = "classification" /\ Len(events) > i) =>
                    /\ sClassification.category = "other"
                    /\ sClassification.priority = 3
                    /\ events[i + 1] = SubtasksAnnounceEvent
              /\ (events[i].step = "classification"
                     /\ sPc \in {"yield_complete", "exhausted"}) =>
                    /\ "subtasks" \in Issued(sCalls)
                    /\ LastEvent.type = "complete"
                    /\ LastEvent.data.classification.category = "other"
                    /\ LastEvent.data.classification.priority = 3
              /\ (events[i].step = "subtasks" /\ Len(events) > i) =>
                    /\ i + 1 = Len(events)
                    /\ LastEvent.type = "complete"
                    /\ LastEvent.data.subtasks.subtasks = <<>>
                    /\ LastEvent.data.classification = sClassification)

C14_Witness ==
    /\ sPc = "exhausted"
    /\ backend.classification.kind = "json"
    /\ backend.classification.category = "work"
    /\ backend.subtasks.kind = "json"
    /\ Len(events) = 8
    /\ events[4].type = "error"
    /\ events[7].type = "error"
    /\ LastEvent.data.classification.category = "other"
    /\ LastEvent.data.subtasks.subtasks = <<>>

\* The events of a stream that nothing else touches, for the bound backend.
UndisturbedStream ==
    LET c == classify_task(TaskTitle, TaskDescription).value
        t == suggest_subtasks(TaskTitle, TaskDescription).value
    IN <<StartEvent, ClassificationAnnounceEvent,
         ClassificationResultEvent(c), SubtasksAnnounceEvent,
         SubtasksResultEvent(t),
         CompleteEvent([classification |-> c, subtasks |-> t])>>

IsPrefix(p, q) == Len(p) <= Len(q) /\ p = SubSeq(q, 1, Len(p))

NoRepeat(q) == \A i, j \in 1..Len(q) : i # j => q[i] # q[j]

\* C19: a stream is single-use and forward-only: no event is emitted twice,
\* events already delivered are never changed or delivered again, every
\* pull after the complete event yields nothing, and a second invocation
\* on the same agent starts from 'start' and delivers what a stream of
\* its own delivers, whatever position the other generator is at.
C19_SingleUseForwardOnly ==
    /\ [](/\ NoRepeat(events)
          /\ NoRepeat(events2)
          /\ IsPrefix(events, UndisturbedStream)
          /\ IsPrefix(events2, UndisturbedStream)
          /\ sPc = "exhausted" => events = UndisturbedStream
          /\ s2Pc = "exhausted" => events2 = UndisturbedStream)
    /\ [][IsPrefix(events, events') /\ IsPrefix(events2, events2')]_vars
    /\ [][sPc = "exhausted" =>
             (sPc' = "exhausted" /\ events' = events /\ sCalls' = sCalls)]_vars
    /\ [][s2Pc = "exhausted" =>
             (s2Pc' = "exhausted" /\ events2' = events2)]_vars

C19_Witness ==
    /\ sPc = "exhausted"
    /\ pulls = MaxPulls
    /\ LastEvent.type = "complete"
    /\ s2Pc = "yield_classification_announce"
    /\ events2 = <<StartEvent, ClassificationAnnounceEvent>>

(***************************************************************************)
(* Claims about the AI endpoints                                           *)
(***************************************************************************)

\* The backend's answers pass the output schema.
ClassificationAnswerValid ==
    /\ backend.classification.kind = "json"
    /\ TaskClassificationValid(backend.classification)

SubtasksAnswerValid ==
    /\ backend.subtasks.kind = "json"
    /\ SubtaskListValid(backend.subtasks)

\* The rows the request's creation loop is responsible for.
GeneratedRows == {row \in subtaskRows : row.ai_generated}

\* The view has run its persistence to the end.
Persisted ==
    /\ vExc = NoError
    /\ vResult # NoResult
    /\ \/ vPc = "done"
       \/ vKind = StreamEndpoint /\ vPc = "exhausted"

\* C15: a schema-valid backend answer is passed through unchanged:
\* analyze_task (and the complete event) hold the classification fields as
\* the backend gave them and the subtasks with the same elements, length
\* and order; the endpoints store the subtasks with order = position
\* 0..n-1 in that order.
C15_PassThrough ==
    /\ (vKind \in {"ai_analyze", StreamEndpoint} /\ vResult # NoResult
           /\ ClassificationAnswerValid) =>
          vResult.classification =
             [category  |-> backend.classification.category,
              reasoning |-> backend.classification.reasoning,
              priority  |-> backend.classification.priority]
    /\ (vKind \in {"ai_analyze", StreamEndpoint} /\ vResult # NoResult
           /\ SubtasksAnswerValid) =>
          /\ Len(vResult.subtasks.subtasks) = Len(backend.subtasks.subtasks)
          /\ \A i \in 1..Len(backend.subtasks.subtasks) :
                vResult.subtasks.subtasks[i] =
                   [title |-> backend.subtasks.subtasks[i].title,
                    description |-> backend.subtasks.subtasks[i].description]
    /\ (vKind # "ai_classify" /\ Persisted /\ SubtasksAnswerValid) =>
          /\ Cardinality(GeneratedRows) = Len(backend.subtasks.subtasks)
          /\ \A i \in 1..Len(backend.subtasks.subtasks) :
                \E row \in GeneratedRows :
                   /\ row.order = i - 1
                   /\ row.title = backend.subtasks.subtasks[i].title
                   /\ row.description =
                         backend.subtasks.subtasks[i].description
          /\ \A r1, r2 \in GeneratedRows :
                r1.order < r2.order => r1.id < r2.id

C15_Witness ==
    /\ vKind = "ai_analyze"
    /\ vPc = "done"
    /\ vResponse.status = 200
    /\ ClassificationAnswerValid
    /\ Len(backend.subtasks.subtasks) = 2
    /\ backend.subtasks.subtasks[1].title = "B"
    /\ backend.subtasks.subtasks[2].title = "A"
    /\ \E r1, r2 \in GeneratedRows :
          /\ r1.order = 0 /\ r1.title = "B"
          /\ r2.order = 1 /\ r2.title = "A"

\* The two lines of every event of a sequence, in order.
Rendered(evs) ==
    [i \in 1..(2 * Len(evs)) |->
        IF i % 2 = 1
        THEN <<"event: ", evs[(i + 1) \div 2].type, "\n">>
        ELSE <<"data: ", [encoding |-> "json", of |-> evs[i \div 2]],
               "\n\n">>]

\* The number of events the generator of the request has yielded.
YieldedBy(pc) ==
    CASE pc = "yield_start" -> 1
      [] pc = "yield_classification_announce" -> 2
      [] pc \in {"yield_classification_result",
                 "yield_classification_error"} -> 3
      [] pc = "yield_subtasks_announce" -> 4
      [] pc \in {"yield_subtasks_result", "yield_subtasks_error"} -> 5
      [] pc \in {"yield_complete", "exhausted"} -> 6
      [] OTHER -> 0

\* The lines of event_stream's own except handler at the end of frames.
HandlerLines ==
    IF vExc = NoError THEN 0
    ELSE IF frames[Len(frames)] = <<"event: ", "error", "\n">> THEN 1
    ELSE 2

\* The lines event_stream yielded inside its for loop.
LoopLines == SubSeq(frames, 1, Len(frames) - HandlerLines)

\* C16: event_stream renders every event of analyze_task_stream, in the
\* order of the stream and exactly once, as the line 'event: <type>'
\* directly followed by the line 'data: <JSON of the event>' and a blank
\* line; the lines of two events are never interleaved.
C16_FramesRenderEvents ==
    vKind = StreamEndpoint =>
       LET k == YieldedBy(vGen.pc)
       IN /\ ctorPc = "constructed" =>
                IsPrefix(LoopLines, Rendered(UndisturbedStream))
          /\ Len(LoopLines) \in {2 * k - 1, 2 * k} \ {-1}
          /\ vPc = "yield_event_line" => Len(LoopLines) = 2 * k - 1
          /\ vPc \in {"yield_data_line", "save_task", "delete", "create",
                      "log", "exhausted", "yield_error_line",
                      "yield_error_data"} => Len(LoopLines) = 2 * k
          /\ (vPc = "exhausted" /\ vExc = NoError) =>
                frames = Rendered(UndisturbedStream)

C16_Witness ==
    /\ vKind = StreamEndpoint
    /\ vPc = "exhausted"
    /\ vExc = NoError
    /\ Len(frames) = 12
    /\ frames[11] = <<"event: ", "complete", "\n">>
    /\ frames[12][2].of.type = "complete"
    /\ Len(frames[12][2].of.data.subtasks.subtasks) = 2

\* The type of the event the i-th line of frames belongs to.
IsEventLine(i, type) == frames[i] = <<"event: ", type, "\n">>

\* C17: every failure of an analysis request reaches the caller as data: no
\* exception leaves a view, in a stream no 'error' event follows a
\* 'complete' event, and a stream read to its end ends with a 'complete'
\* or an 'error' event.
C17_FailureSurfacedAsData ==
    /\ vPc # "raised"
    /\ \A i, j \in 1..Len(frames) :
          (i < j /\ IsEventLine(i, "complete")) => ~IsEventLine(j, "error")
    /\ (vKind = StreamEndpoint /\ vPc = "exhausted") =>
          /\ Len(frames) >= 2
          /\ \/ IsEventLine(Len(frames) - 1, "complete")
             \/ IsEventLine(Len(frames) - 1, "error")

\* The request has ended.
RequestEnded == vPc \in {"done", "raised", "exhausted", "closed"}

OriginalRow(pk) ==
    CHOOSE row \in {ManualSubtask, StaleSubtask, OtherSubtask} : row.id = pk

RECURSIVE Occurrences(_, _)
\* How often x occurs in the sequence q.
Occurrences(q, x) ==
    IF q = <<>> THEN 0
    ELSE (IF Head(q) = x THEN 1 ELSE 0) + Occurrences(Tail(q), x)

\* C20: toggle negates 'completed' of the subtask it names and changes no
\* other field of it, no other subtask and nothing else that is stored;
\* a subtask toggled twice (any even number of times) has its original
\* 'completed', one toggled an odd number of times the negated one.
C20_ToggleNegates ==
    /\ [][\A pk \in SubtaskIds :
            toggled' = Append(toggled, pk) =>
               \E row \in subtaskRows :
                  /\ row.id = pk
                  /\ subtaskRows' = (subtaskRows \ {row}) \cup
                        {[id |-> row.id, title |-> row.title,
                          description |-> row.description,
                          order |-> row.order,
                          ai_generated |-> row.ai_generated,
                          completed |-> ~row.completed]}
                  /\ UNCHANGED <<taskRow, analyses, nextId>>]_vars
    /\ [][toggled' = toggled => subtaskRows' = subtaskRows]_vars
    /\ [](\A row \in subtaskRows :
            LET original == OriginalRow(row.id)
            IN /\ row.title = original.title
               /\ row.description = original.description
               /\ row.order = original.order
               /\ row.ai_generated = original.ai_generated
               /\ row.completed =
                     IF Occurrences(toggled, row.id) % 2 = 0
                     THEN original.completed
                     ELSE ~original.completed)

C20_Witness ==
    /\ toggled = <<2, 2>>
    /\ StaleSubtask \in subtaskRows
    /\ ManualSubtask \in subtaskRows
    /\ vResponse.status = 200
    /\ vResponse.body.completed = TRUE

(***************************************************************************)
(* Claims about the writes of the AI endpoints                             *)
(***************************************************************************)

\* The task, its subtasks and its analysis log as they are now.
DbNow == [task |-> taskRow, subtasks |-> subtaskRows, analyses |-> analyses]

\* Both lines of the complete event have been yielded.
CompleteFramesYielded ==
    /\ Len(frames) >= 12
    /\ IsEventLine(11, "complete")
    /\ frames[12][1] = "data: "
    /\ frames[12][2].of.type = "complete"

\* C25: in ai_analyze_stream the task update, the replacement of the
\* AI-generated subtasks and the AIAnalysis row are written only after
\* both lines of the complete event were yielded and the consumer has
\* called next() again (the 13th call); a consumer that stops after the
\* data line of the complete event leaves the database as it was.
C25_WritesAfterCompleteFrames ==
    /\ [][(vKind = StreamEndpoint /\ dbVars' # dbVars) =>
             /\ CompleteFramesYielded
             /\ vPulls >= 13
             /\ vPulls' = vPulls]_vars
    /\ []((vKind = StreamEndpoint /\ vPulls <= 12) => DbNow = dbBefore)
    /\ [][vPc = "closed" => (vPc' = "closed" /\ dbVars' = dbVars)]_vars

C25_Witness ==
    /\ vKind = StreamEndpoint
    /\ vPc = "closed"
    /\ vPulls = 12
    /\ CompleteFramesYielded
    /\ Len(frames) = 12
    /\ StaleSubtask \in subtaskRows
    /\ ~taskRow.ai_classified
    /\ DbNow = dbBefore

\* A synchronous endpoint has answered 500 and logged the failure.
AnsweredFailure ==
    /\ vKind \in SyncEndpoints
    /\ vPc = "done"
    /\ vResponse.status = 500
    /\ analyses # <<>>
    /\ ~analyses[Len(analyses)].success

\* C26: when ai_classify, ai_suggest_subtasks or ai_analyze answers 500 and
\* logs an AIAnalysis with success = false, the task's category, priority
\* and ai_classified and the task's subtasks are what they were before the
\* request, and exactly one AIAnalysis row was added.
C26_FailureLeavesTaskAsItWas ==
    AnsweredFailure =>
       /\ taskRow = dbBefore.task
       /\ subtaskRows = dbBefore.subtasks
       /\ Len(analyses) = Len(dbBefore.analyses) + 1

\* Both requests to the backend raise.
BackendFails ==
    /\ backend.classification.kind = "raise"
    /\ backend.subtasks.kind = "raise"

\* C27: a safe default of the executor is handled like a model result: with
\* a constructed agent whose backend fails, an ai_analyze request whose
\* writes go through answers 200, logs one AIAnalysis with success = true
\* and no error text, sets the task to 'other' / 3 / ai_classified, deletes
\* the AI-generated subtasks and creates none; a row with success = false
\* exists only when an exception has reached the view's handler.
C27_DefaultHandledAsResult ==
    /\ (vKind = "ai_analyze" /\ ctorPc = "constructed" /\ BackendFails) =>
          /\ vExc \in {NoError, DatabaseError}
          /\ (vPc = "done" /\ vExc = NoError) =>
                /\ vResponse.status = 200
                /\ Len(analyses) = 1
                /\ analyses[1].success
                /\ analyses[1].error_message = NoError
                /\ taskRow.category = "other"
                /\ taskRow.priority = 3
                /\ taskRow.ai_classified
                /\ subtaskRows =
                      {row \in dbBefore.subtasks : ~row.ai_generated}
    /\ \A i \in 1..Len(analyses) :
          ~analyses[i].success =>
             /\ vExc # NoError
             /\ analyses[i].error_message = vExc
             /\ vResponse.status = 500

C27_Witness ==
    /\ vKind = "ai_analyze"
    /\ ctorPc = "constructed"
    /\ BackendFails
    /\ vPc = "done"
    /\ vResponse.status = 200
    /\ StaleSubtask \in dbBefore.subtasks
    /\ subtaskRows = {ManualSubtask}
    /\ analyses[1].success
    /\ taskRow.category = "other"

\* Both requests have ended, the first with all its writes done, and at
\* least one of them has replaced the AI-generated subtasks.
Replaced ==
    /\ vPc \in {"idle", "done", "exhausted"}
    /\ vExc = NoError
    /\ oPc \in {"idle", "done"}
    /\ \/ oPc = "done"
       \/ vPc # "idle" /\ vKind # "ai_classify"

\* C23: after ai_suggest_subtasks, ai_analyze and ai_analyze_stream requests
\* on a task, served one after the other or interleaved, the AI-generated
\* subtasks of the task are the subtasks of one analysis result, each
\* once, with orders 0..n-1, and the subtasks written by hand are as they
\* were.
C23_GeneratedRowsAreOneResult ==
    Replaced =>
       LET data == backend.subtasks.subtasks
       IN /\ Cardinality(GeneratedRows) = Len(data)
          /\ \A i \in 1..Len(data) :
                \E row \in GeneratedRows :
                   /\ row.order = i - 1
                   /\ row.title = data[i].title
                   /\ row.description = data[i].description
          /\ subtaskRows \ GeneratedRows =
                {row \in dbBefore.subtasks : ~row.ai_generated}

(***************************************************************************)
(* Properties of the REST endpoints (checked under SpecApi)                *)
(***************************************************************************)

\* The last request was this action of this viewset, answered with status.
Served(view, action, status) ==
    /\ apiRequest.view = view
    /\ apiRequest.action = action
    /\ apiResponse.status = status

\* The task the last request named, as it was before the request.
NamedTask == CHOOSE task \in apiBefore.tasks : task.id = apiRequest.pk

\* The rows of Task with the named task given this status and every other
\* row and field as before.
WithStatus(value) ==
    (apiBefore.tasks \ {NamedTask})
       \cup {[NamedTask EXCEPT !.status = value]}

\* C21: complete leaves the task with status 'completed' and reopen leaves
\* it with status 'pending', whatever the status was; no other field of the
\* task, no subtask and no other task changes, and complete on a completed
\* task, like reopen on a pending one, changes nothing at all.
C21_CompleteAndReopenSetOnlyStatus ==
    /\ Served("tasks", "complete", 200) =>
          /\ apiTasks = WithStatus("completed")
          /\ apiSubtasks = apiBefore.subtasks
          /\ apiAnalyses = apiBefore.analyses
          /\ NamedTask.status = "completed" => ApiTables = apiBefore
    /\ Served("tasks", "reopen", 200) =>
          /\ apiTasks = WithStatus("pending")
          /\ apiSubtasks = apiBefore.subtasks
          /\ apiAnalyses = apiBefore.analyses
          /\ NamedTask.status = "pending" => ApiTables = apiBefore

\* alice's task, pending at first, has been completed twice in a row: the
\* second complete found it completed and changed nothing.
C21_Witness ==
    /\ apiCalls = 2
    /\ Served("tasks", "complete", 200)
    /\ NamedTask.user = "alice"
    /\ NamedTask.status = "completed"
    /\ NamedTask.ai_classified = FALSE
    /\ ApiTables = apiBefore
    /\ \E task \in apiTasks : task.user = "bob"

\* The request carries no token: no 'Bearer <token>' Authorization header
\* and no 'token' query parameter.
CarriesNoToken(request) ==
    /\ ~ /\ request.header.present
         /\ Len(request.header.parts) = 2
         /\ Lower(request.header.parts[1]) = "bearer"
    /\ request.query = NoToken

\* C22: a request that carries no token is not authenticated as any user,
\* is rejected with 401 by every task, subtask and AI-analysis endpoint and
\* leaves all stored rows as they were.
C22_NoTokenRejectedWith401 ==
    (apiCalls > 0 /\ CarriesNoToken(apiRequest)) =>
       /\ RequestUser(apiRequest) = AnonymousUser
       /\ apiResponse.status = 401
       /\ ApiTables = apiBefore

\* The users that own rows.
ApiUsers == {CognitoUsers[token] : token \in DOMAIN CognitoUsers}

\* The owner of the task with this primary key.
TaskOwner(tasks, id) == (CHOOSE task \in tasks : task.id = id).user

\* The rows of a user: the user's tasks, and the subtasks and analyses
\* attached to them.
RowsOf(user, tables) ==
    [tasks |-> {task \in tables.tasks : task.user = user},
     subtasks |-> {subtask \in tables.subtasks :
                     TaskOwner(tables.tasks, subtask.task) = user},
     analyses |-> {analysis \in tables.analyses :
                     TaskOwner(tables.tasks, analysis.task) = user}]

\* A row of a response is a task of the user or is attached to one.
BelongsTo(row, user) ==
    IF "user" \in DOMAIN row THEN row.user = user
    ELSE TaskOwner(apiTasks, row.task) = user

\* C24: no request of user A to SubtaskViewSet reads, creates, modifies,
\* toggles or deletes a subtask attached to a task of another user B, and
\* no request of A to TaskViewSet or AIAnalysisViewSet returns or changes
\* a task or an analysis of B.
C24_NoAccessAcrossUsers ==
    \A a \in ApiUsers :
       (apiCalls > 0 /\ RequestUser(apiRequest) = a) =>
          \A b \in ApiUsers \ {a} :
             /\ RowsOf(b, ApiTables) = RowsOf(b, apiBefore)
             /\ \A row \in apiResponse.data : ~BelongsTo(row, b)

====
